---- MODULE Spec2Model ----
(***************************************************************************)
(* Model of the JSX extraction engine of vscode-react-refactor:            *)
(*   - the two parse caches (ASTService.codeToAst and lib/ast codeToAst),  *)
(*   - the extraction pipeline BaseRefactoringStrategy.executeExtraction,  *)
(*   - the extract command run (RefactoringService.extractToComponent).    *)
(* Babel and the editor are external: their answers are inputs drawn from  *)
(* bounded sets.                                                           *)
(***************************************************************************)
EXTENDS Integers, Sequences, FiniteSets, TLC

VARIABLES
    now,              \* Date.now()
    pluginsConfig,    \* setting vscodeReactRefactor.babelPlugins
    epoch,            \* number of dialect changes so far (history)
    astCache,         \* ASTService.astCache, a Map in insertion order
    libCache,         \* lib/ast astCache, a Map in insertion order
    cachedConfigKey,  \* lib/ast cachedConfigKey (null = "null")
    heap,             \* the trees allocated so far; a tree is its index
    calls,            \* number of codeToAst calls made so far
    ticks,            \* number of clock advances so far
    call,             \* the latest codeToAst call: input and outcome
    last,             \* per service and text: the latest returning call
    ctx,              \* the ExtractionContext of the latest extraction
    outcome,          \* what the latest extraction returned or threw
    executions,       \* number of extractions so far
    run,              \* the latest run of an extract command
    retry,            \* the latest call of retryWithBackoff
    container,        \* the ServiceContainer: its three maps
    served            \* the latest operation on the container

cacheVars == <<now, pluginsConfig, epoch, astCache, libCache,
               cachedConfigKey, heap, calls, ticks, call, last>>

extractVars == <<ctx, outcome, executions>>

commandVars == <<run>>

coreVars == <<retry, container, served>>

vars == <<cacheVars, extractVars, commandVars, coreVars>>

----------------------------------------------------------------------------
(* Bounds *)

NumKeys == 11        \* distinct 100-character prefixes among the documents
MaxCalls == 12       \* codeToAst calls in one behaviour
MaxDocCalls == 2     \* of which calls that play on one cache key
MaxTicks == 2        \* clock advances in one behaviour
MaxEvictTicks == 1   \* of which while the cache is being filled
MaxConfigChanges == 1
MaxRefs == 2         \* reference sites in a selected element
MaxExecutions == 2   \* extractions in one behaviour
MaxRuns == 1         \* command runs in one behaviour

----------------------------------------------------------------------------
(* Program constants *)

AST_CACHE_TTL == 5000
AST_CACHE_LIMIT == 10
CACHEABLE_LENGTH == 1000
CACHE_KEY_LENGTH == 100

----------------------------------------------------------------------------
(* Documents.  A text is described by what the code reads of it: its      *)
(* first 100 characters, the rest, its length, and what the parser makes  *)
(* of it (the grammar extensions it needs, whether it is well formed, the *)
(* number of top-level statements).                                       *)

Null == "null"

(* what the JSX probe reads of a fragment: the first and last character of
   the trimmed text, and the statement(s) template.ast makes of it *)
Fragment(firstChar, lastChar, template) ==
    [first |-> firstChar, last |-> lastChar, template |-> template]

NoFragment == Fragment("", "", "throws")

Text(p, r, n, nd, ok, st) ==
    [prefix |-> p, rest |-> r, length |-> n, needs |-> nd,
     wellFormed |-> ok, stmts |-> st, elements |-> <<>>, sites |-> <<>>]

DocA == Text(1, 1, 1500, {"jsx"}, TRUE, 2)
DocB == Text(1, 2, 1500, {"jsx"}, TRUE, 1)
DocShort == Text(1, 3, 1000, {"jsx"}, TRUE, 1)
DocEmpty == Text(1, 4, 1200, {}, TRUE, 0)
DocBroken == Text(1, 5, 1500, {"jsx"}, FALSE, 0)
DocTs == Text(1, 6, 1500, {"jsx", "typescript"}, TRUE, 1)
Filler(k) == Text(k, 1, 1001, {"jsx"}, TRUE, 1)

Prefix1Texts == {DocA, DocB, DocShort, DocEmpty, DocBroken, DocTs}
Fillers == {Filler(k) : k \in 2..NumKeys}
Texts == Prefix1Texts \cup Fillers

PluginConfigs == {"jsx", "jsx, typescript"}

Services == {"ast", "lib"}

----------------------------------------------------------------------------
(* Map with insertion order (ECMAScript Map) *)

MapHas(m, k) == \E i \in 1..Len(m) : m[i].key = k

MapGet(m, k) == m[CHOOSE i \in 1..Len(m) : m[i].key = k].value

MapSet(m, k, v) ==
    IF MapHas(m, k)
    THEN [i \in 1..Len(m) |->
            IF m[i].key = k THEN [key |-> k, value |-> v] ELSE m[i]]
    ELSE Append(m, [key |-> k, value |-> v])

IsNot(k, e) == e.key # k

MapDelete(m, k) == SelectSeq(m, LAMBDA e : IsNot(k, e))

MapKeys(m) == {m[i].key : i \in 1..Len(m)}

MapSize(m) == Len(m)

----------------------------------------------------------------------------
(* Errors.  A thrown value is a record: a RefactoringError carries a code *)
(* and the identity of the error it wraps; any other Error is identified  *)
(* by its message.                                                        *)

NoCause == "none"

RefactoringError(code, message, originalError) ==
    [refactoring |-> TRUE, code |-> code, message |-> message,
     originalError |-> originalError, isError |-> TRUE]

PlainError(message) ==
    [refactoring |-> FALSE, code |-> "", message |-> message,
     originalError |-> NoCause, isError |-> TRUE]

NoError == [refactoring |-> FALSE, code |-> "", message |-> "",
            originalError |-> NoCause, isError |-> FALSE]

(* every thrown value is wrapped, a RefactoringError too *)
wrapError_AlwaysWraps(e, errorCode, errorMessage) ==
    RefactoringError(errorCode, errorMessage, e.message)

(* wrapErrorSync / wrapError: what leaves the wrapper when fn threw e *)
wrapError(e, errorCode, errorMessage) ==
    IF e.refactoring
    THEN e
    ELSE RefactoringError(errorCode, errorMessage,
            IF e.isError THEN e.message
            ELSE "Error(" \o e.message \o ")")

----------------------------------------------------------------------------
(* Parsing *)

ServicePlugins == {"jsx", "typescript"}

(* getParserOptions: plugins = pluginsConfig.split(',').map(trim) *)
PluginsOf(cfg) ==
    IF cfg = "jsx" THEN {"jsx"}
    ELSE IF cfg = "jsx, typescript" THEN {"jsx", "typescript"}
    ELSE {}

ParserAccepts(code, plugins) ==
    code.wellFormed /\ code.needs \subseteq plugins

SyntaxError == PlainError("SyntaxError")

(* the File node a successful parse allocates *)
NewTree(code) ==
    [text |-> code, body |-> code.stmts, epoch |-> epoch, at |-> now,
     elements |-> code.elements, sites |-> code.sites]

----------------------------------------------------------------------------
(* codeToAst: the cache logic shared by ASTService and lib/ast *)

(* the whole text as the key *)
cacheKey_WholeText(code) == <<code.prefix, code.rest>>

(* code.substring(0, 100) *)
cacheKey(code) == code.prefix

(* the freshness comparison inverted *)
CacheHit_Inverted(cache, code) ==
    /\ MapHas(cache, cacheKey(code))
    /\ now - MapGet(cache, cacheKey(code)).timestamp > AST_CACHE_TTL
    /\ heap[MapGet(cache, cacheKey(code)).ast].body > 0

(* an entry exactly AST_CACHE_TTL old still served *)
CacheHit_Inclusive(cache, code) ==
    /\ MapHas(cache, cacheKey(code))
    /\ now - MapGet(cache, cacheKey(code)).timestamp <= AST_CACHE_TTL
    /\ heap[MapGet(cache, cacheKey(code)).ast].body > 0

(* cached && now - cached.timestamp < AST_CACHE_TTL
   && cached.ast.program.body.length > 0 *)
CacheHit(cache, code) ==
    /\ MapHas(cache, cacheKey(code))
    /\ now - MapGet(cache, cacheKey(code)).timestamp < AST_CACHE_TTL
    /\ heap[MapGet(cache, cacheKey(code)).ast].body > 0

(* code.length > 1000 *)
ShouldCache(code) == code.length > CACHEABLE_LENGTH

(* the comparator reversed: the newest entry is chosen *)
OldestKey_Newest(m) ==
    m[CHOOSE i \in 1..Len(m) :
        /\ \A j \in 1..Len(m) : m[i].value.timestamp >= m[j].value.timestamp
        /\ \A j \in 1..(i - 1) :
              m[j].value.timestamp < m[i].value.timestamp].key

(* Array.from(entries()).sort((a, b) => a[1].timestamp - b[1].timestamp)
   [0][0]; the sort is stable, so the first of the oldest in insertion
   order *)
OldestKey(m) ==
    m[CHOOSE i \in 1..Len(m) :
        /\ \A j \in 1..Len(m) : m[i].value.timestamp <= m[j].value.timestamp
        /\ \A j \in 1..(i - 1) :
              m[j].value.timestamp > m[i].value.timestamp].key

(* astCache.set(cacheKey, {ast, timestamp: now}); if (size > 10) delete *)
StoreTree(cache, code, ast) ==
    IF ShouldCache(code)
    THEN LET stored == MapSet(cache, cacheKey(code),
                              [ast |-> ast, timestamp |-> now])
         IN  IF MapSize(stored) > AST_CACHE_LIMIT
             THEN MapDelete(stored, OldestKey(stored))
             ELSE stored
    ELSE cache

(* the outcome of codeToAst(code) on cache; parseError is what the parser
   of this service throws on a text it rejects *)
codeToAst(cache, code, plugins, parseError) ==
    IF CacheHit(cache, code)
    THEN [cache |-> cache, heap |-> heap, hit |-> TRUE, threw |-> FALSE,
          error |-> NoError, ret |-> MapGet(cache, cacheKey(code)).ast]
    ELSE IF ~ParserAccepts(code, plugins)
    THEN [cache |-> cache, heap |-> heap, hit |-> FALSE, threw |-> TRUE,
          error |-> parseError, ret |-> 0]
    ELSE [cache |-> StoreTree(cache, code, Len(heap) + 1),
          heap |-> Append(heap, NewTree(code)),
          hit |-> FALSE, threw |-> FALSE, error |-> NoError,
          ret |-> Len(heap) + 1]

(* the parser's error leaves BabelService.parse as it is *)
ParserError_Unwrapped == SyntaxError

(* BabelService.parse wraps the parser's error *)
ParserError ==
    wrapError(SyntaxError, "PARSER_ERROR", "Failed to parse code")

NoCall == [at |-> -1, ret |-> 0, epoch |-> 0, hit |-> FALSE]

LastOf(svc, code) ==
    IF code \in DOMAIN last[svc] THEN last[svc][code] ELSE NoCall

IdleCall == [svc |-> "none", code |-> DocA, at |-> 0, hit |-> FALSE,
             threw |-> FALSE, error |-> NoError, ret |-> 0, epoch |-> 0,
             prev |-> NoCall]

(* the record kept of a call *)
CallRecord(svc, code, r) ==
    [svc |-> svc, code |-> code, at |-> now, hit |-> r.hit,
     threw |-> r.threw, error |-> r.error, ret |-> r.ret, epoch |-> epoch,
     prev |-> LastOf(svc, code)]

Remember(svc, code, r) ==
    IF r.threw THEN last
    ELSE [last EXCEPT ![svc] =
            (code :> [at |-> now, ret |-> r.ret, epoch |-> epoch,
                      hit |-> r.hit]) @@ @]

(* ASTService.codeToAst(code) *)
ServiceCodeToAst(code) ==
    /\ calls < MaxCalls
    /\ LET r == codeToAst(astCache, code, ServicePlugins, ParserError)
       IN  /\ astCache' = r.cache
           /\ heap' = r.heap
           /\ call' = CallRecord("ast", code, r)
           /\ last' = Remember("ast", code, r)
    /\ calls' = calls + 1
    /\ UNCHANGED <<now, pluginsConfig, epoch, libCache, cachedConfigKey,
                   ticks, extractVars, commandVars, coreVars>>

(* lib/ast codeToAst(code); getParserOptions runs on a miss only and
   clears the cache when the plugins setting differs from the cached key *)
LibCodeToAst(code) ==
    /\ calls < MaxCalls
    /\ LET stale == ~CacheHit(libCache, code)
                    /\ cachedConfigKey # pluginsConfig
           base == IF stale THEN <<>> ELSE libCache
           r == codeToAst(base, code, PluginsOf(pluginsConfig), SyntaxError)
       IN  /\ libCache' = r.cache
           /\ cachedConfigKey' =
                IF stale THEN pluginsConfig ELSE cachedConfigKey
           /\ heap' = r.heap
           /\ call' = CallRecord("lib", code, r)
           /\ last' = Remember("lib", code, r)
    /\ calls' = calls + 1
    /\ UNCHANGED <<now, pluginsConfig, epoch, astCache, ticks, extractVars,
                   commandVars, coreVars>>

(* time passes *)
Tick(d) ==
    /\ ticks < MaxTicks
    /\ now' = now + d
    /\ ticks' = ticks + 1
    /\ UNCHANGED <<pluginsConfig, epoch, astCache, libCache,
                   cachedConfigKey, heap, calls, call, last, extractVars,
                   commandVars, coreVars>>

(* the user changes vscodeReactRefactor.babelPlugins; the listener of
   lib/ast runs; ASTService registers no listener *)
ConfigChange(cfg) ==
    /\ epoch < MaxConfigChanges
    /\ cfg # pluginsConfig
    /\ pluginsConfig' = cfg
    /\ epoch' = epoch + 1
    /\ cachedConfigKey' = Null
    /\ libCache' = <<>>
    /\ UNCHANGED <<now, astCache, heap, calls, ticks, call, last,
                   extractVars, commandVars, coreVars>>

IdleContext ==
    [name |-> "", code |-> DocA, start |-> 0, end |-> 0,
     produceClass |-> FALSE, fragment |-> NoFragment, wrapped |-> NoFragment,
     fault |-> "none", functionType |-> "function"]

IdleOutcome ==
    [threw |-> FALSE, stage |-> "idle", thrown |-> NoError,
     error |-> NoError,
     result |-> [replaceJSXCode |-> "", componentCode |-> <<>>,
                 insertAt |-> -1],
     cache |-> <<>>, heap |-> <<>>, tree |-> 0, element |-> 0,
     selectionCode |-> "raw", end |-> 0, paths |-> <<>>, live |-> <<>>,
     objects |-> <<>>,
     bound |-> [nodes |-> <<>>, passedProps |-> <<>>, names |-> <<>>]]

(* no command has run *)
IdleRun ==
    [pc |-> "idle", number |-> 0, produceClass |-> FALSE, name |-> "",
     edits |-> <<>>,
     formatted |-> FALSE, selectionReset |-> FALSE, failedAt |-> "none",
     error |-> NoError, shown |-> <<>>]

(* a value that was thrown or rejected with: an Error object (with its
   identity) or any other value *)
ThrownValue(isError, id, message) ==
    [isError |-> isError, id |-> id, message |-> message]

NoValue == ThrownValue(FALSE, "none", "")

(* retryWithBackoff has not been called *)
IdleRetry ==
    [pc |-> "idle", maxRetries |-> 0, initialDelay |-> 0, attempt |-> 0,
     calls |-> 0, rejections |-> <<>>, delays |-> <<>>,
     lastError |-> NoValue, result |-> "none", thrown |-> NoValue]

(* an object made by a factory or registered directly: its class, its
   identity and the objects its constructor was given *)
Instance(class, id, deps) == [class |-> class, id |-> id, deps |-> deps]

NoInstance == Instance("none", 0, <<>>)

(* new ServiceContainer(); created counts the objects made so far *)
NewServiceContainer(created) ==
    [services |-> <<>>, factories |-> <<>>, singletons |-> <<>>,
     created |-> created]

(* what an operation on the container answered *)
Served(name, key, threw, value, message, ops) ==
    [name |-> name, key |-> key, threw |-> threw, value |-> value,
     message |-> message, ops |-> ops]

Init ==
    /\ now = 0
    /\ pluginsConfig \in PluginConfigs
    /\ epoch = 0
    /\ astCache = <<>>
    /\ libCache = <<>>
    /\ cachedConfigKey = Null
    /\ heap = <<>>
    /\ calls = 0
    /\ ticks = 0
    /\ call = IdleCall
    /\ last = [s \in Services |-> <<>>]
    /\ ctx = IdleContext
    /\ outcome = IdleOutcome
    /\ executions = 0
    /\ run = IdleRun
    /\ retry = IdleRetry
    /\ container = NewServiceContainer(0)
    /\ served = Served("new", "", FALSE, NoInstance, "", 0)

CodeToAstCall(svc, code) ==
    IF svc = "ast" THEN ServiceCodeToAst(code) ELSE LibCodeToAst(code)

CacheOf(svc) == IF svc = "ast" THEN astCache ELSE libCache

(* the two caches share nothing but the clock: a behaviour of the cache
   specifications exercises one of them *)
OneService(svc) == calls = 0 \/ call.svc = svc

TickSteps == {1, 4999}

(* before the first call the caches are empty: time that passes and a
   setting that changes then leave nothing to observe, the setting starting
   with either value *)
NextCache ==
    \/ /\ calls < MaxDocCalls
       /\ \E svc \in Services, code \in Prefix1Texts :
             /\ OneService(svc)
             /\ CodeToAstCall(svc, code)
    \/ /\ calls > 0
       /\ \E d \in TickSteps : Tick(d)
    \/ /\ calls > 0
       /\ \E cfg \in PluginConfigs : ConfigChange(cfg)

SpecCache == Init /\ [][NextCache]_vars

(* Filling the cache: the filler documents are first parsed in the order
   of their prefixes, and parsed again only when the cache does not hold
   them; DocA is parsed whenever the cache does not serve it *)
FillerDue(svc, code) ==
    /\ \A k \in 3..NumKeys :
          code = Filler(k) => LastOf(svc, Filler(k - 1)).at >= 0
    /\ ~MapHas(CacheOf(svc), cacheKey(code))

EvictTickSteps == {5000}

NextEvict ==
    \/ \E svc \in Services, code \in Fillers :
          /\ OneService(svc)
          /\ FillerDue(svc, code)
          /\ CodeToAstCall(svc, code)
    \/ \E svc \in Services :
          /\ OneService(svc)
          /\ ~CacheHit(CacheOf(svc), DocA)
          /\ CodeToAstCall(svc, DocA)
    \/ \E d \in EvictTickSteps : ticks < MaxEvictTicks /\ Tick(d)

SpecEvict == Init /\ [][NextEvict]_vars

----------------------------------------------------------------------------
(* Strings *)

(* s.startsWith(p) *)
StartsWith(s, p) == Len(p) <= Len(s) /\ SubSeq(s, 1, Len(p)) = p

(* s.lastIndexOf('.') + 1, as a count of characters *)
AfterLastDot(s) ==
    IF \E i \in 1..Len(s) : SubSeq(s, i, i) = "."
    THEN CHOOSE i \in 1..Len(s) :
            /\ SubSeq(s, i, i) = "."
            /\ \A j \in (i + 1)..Len(s) : SubSeq(s, j, j) # "."
    ELSE 0

(* s.slice(n) *)
Slice(s, n) == IF n >= Len(s) THEN "" ELSE SubSeq(s, n + 1, Len(s))

RECURSIVE JoinDot(_)
(* parts.join('.') *)
JoinDot(parts) ==
    IF Len(parts) = 0 THEN ""
    ELSE IF Len(parts) = 1 THEN parts[1]
    ELSE parts[1] \o "." \o JoinDot(Tail(parts))

Front(q) == SubSeq(q, 1, Len(q) - 1)

----------------------------------------------------------------------------
(* Expression nodes.  A node is the chain of names of an identifier, of    *)
(* this, or of a member access (this.state.x is <<"this","state","x">>);   *)
(* callee tells that the node is the callee of a call node(this).          *)

Node(segs, callee) == [segs |-> segs, callee |-> callee]

isMemberExpression(node) == Len(node.segs) >= 2

isThisExpression(segs) == segs = <<"this">>

isIdentifier(node) == Len(node.segs) = 1 /\ ~isThisExpression(node.segs)

(* node.object of a member access *)
ObjectOf(node) == Node(Front(node.segs), FALSE)

(* node.property.name of a member access *)
PropertyName(node) == node.segs[Len(node.segs)]

(* codeFromNode(node) *)
codeFromNode(node) == JoinDot(node.segs)

(* path.key === 'callee' && path.node.property.name === 'bind' *)
isFunctionBinding(node) == node.callee /\ PropertyName(node) = "bind"

(* the text the generator prints where the node stands *)
RenderSite(node) ==
    IF node.callee THEN codeFromNode(node) \o "(this)" ELSE codeFromNode(node)

----------------------------------------------------------------------------
(* JSX probe.  A fragment is given by its first and last character after  *)
(* trimming and by what template.ast makes of it.                         *)

(* BabelService.jsxToAst: the statement(s), or false *)
jsxToAst(fragment) ==
    IF fragment.template \in {"throws", "null"} THEN "false"
    ELSE fragment.template

(* every single expression statement taken for markup *)
isJSX_AnyExpression(fragment) ==
    IF fragment.first # "<" \/ fragment.last # ">" THEN FALSE
    ELSE jsxToAst(fragment) \in {"JSXElement", "JSXFragment", "Expression"}

(* BabelService.isJSX *)
isJSX(fragment) ==
    IF fragment.first # "<" \/ fragment.last # ">" THEN FALSE
    ELSE IF jsxToAst(fragment) \in {"false", "array"} THEN FALSE
    ELSE IF jsxToAst(fragment) \in {"JSXElement", "JSXFragment", "Expression"}
    THEN jsxToAst(fragment) \in {"JSXElement", "JSXFragment"}
    ELSE FALSE

----------------------------------------------------------------------------
(* Tree queries *)

InRange(x, start, end) == x.start >= start /\ x.end <= end

(* isPathInRange(start, end): a node without a location, as the nodes
   createPropsExpression builds, compares false *)
isPathInRange(site, start, end) ==
    site.located /\ InRange(site, start, end)

(* the guard of the JSXElement visitor: start and end truthy and the span
   inside [start, end] *)
ElementSelected(e, start, end) ==
    e.start # 0 /\ e.end # 0 /\ e.start >= start /\ e.end <= end

(* ASTService.findSelectedJSXElement: index of the first element, in
   traversal order, that the visitor accepts; 0 for none *)
findSelectedJSXElement(tree, start, end) ==
    IF \E i \in 1..Len(tree.elements) :
          ElementSelected(tree.elements[i], start, end)
    THEN CHOOSE i \in 1..Len(tree.elements) :
            /\ ElementSelected(tree.elements[i], start, end)
            /\ \A j \in 1..(i - 1) :
                  ~ElementSelected(tree.elements[j], start, end)
    ELSE 0

(* ASTService.findParentComponent: the enclosing class declaration,
   variable declarator or function declaration, if any *)
HasParentComponent(element) ==
    element.component.kind \in
        {"ClassDeclaration", "VariableDeclarator", "FunctionDeclaration"}

(* getComponentStartAt *)
getComponentStartAt(component) ==
    IF Len(component.comments) # 0 /\ component.comments[1] # 0
    THEN component.comments[1]
    ELSE component.start

----------------------------------------------------------------------------
(* Container objects *)

isPropsObject(expressionCode) ==
    expressionCode \in {"this.props", "this.state", "props"}

(* the paths getContainerObjects counts: member accesses whose object is
   not this, and everything that is no member access *)
CountsAsRoot(node) ==
    \/ isMemberExpression(node) /\ ~isThisExpression(ObjectOf(node).segs)
    \/ ~isMemberExpression(node)

(* codeFromNode(isMemberExpression(node) ? node.object : node) *)
RootCode(node) ==
    IF isMemberExpression(node) THEN codeFromNode(ObjectOf(node))
    ELSE codeFromNode(node)

RECURSIVE CountRoots(_, _)
(* objectMap: root text -> number of occurrences, keys in insertion order *)
CountRoots(nodes, objectMap) ==
    IF Len(nodes) = 0 THEN objectMap
    ELSE IF CountsAsRoot(Head(nodes))
    THEN LET object == RootCode(Head(nodes))
             n == IF MapHas(objectMap, object)
                  THEN MapGet(objectMap, object) ELSE 0
         IN  CountRoots(Tail(nodes), MapSet(objectMap, object, n + 1))
    ELSE CountRoots(Tail(nodes), objectMap)

(* a root that occurs once kept *)
KeptRoot_Once(e) == e.value >= 1 /\ ~isPropsObject(e.key)

KeptRoot(e) == e.value > 1 /\ ~isPropsObject(e.key)

(* key.startsWith(k + '.') for another kept root k *)
NestedRoot(filteredMap, key) ==
    \E i \in 1..Len(filteredMap) :
        /\ filteredMap[i].key # key
        /\ StartsWith(key, filteredMap[i].key \o ".")

ContainerOf(object) ==
    [object |-> object, property |-> Slice(object, AfterLastDot(object))]

(* BaseRefactoringStrategy.getContainerObjects *)
getContainerObjects(nodes) ==
    LET objectMap == CountRoots(nodes, <<>>)
        filteredMap == SelectSeq(objectMap, KeptRoot)
        finalMap == SelectSeq(filteredMap,
                        LAMBDA e : ~NestedRoot(filteredMap, e.key))
    IN  [i \in 1..Len(finalMap) |-> ContainerOf(finalMap[i].key)]

----------------------------------------------------------------------------
(* Prop binding *)

(* createPropsExpression: the chain of the synthesized member access *)
createPropsExpression(produceClass, propertyName) ==
    IF produceClass THEN <<"this", "props", propertyName>>
    ELSE <<"props", propertyName>>

(* the name returned whatever it holds *)
ensurePropertyIsUnique_NoMangle(propsMap, name, value) == name

RECURSIVE ensurePropertyIsUnique(_, _, _)
ensurePropertyIsUnique(propsMap, name, value) ==
    IF ~MapHas(propsMap, name) \/ codeFromNode(MapGet(propsMap, name)) = value
    THEN name
    ELSE ensurePropertyIsUnique(propsMap, "_" \o name, value)

(* [property, childObject.slice(object.length + 1)].filter(o => !!o)
   .join('.') *)
matchRouteInObject(object, childObject) ==
    JoinDot(SelectSeq(<<object.property,
                        Slice(childObject, Len(object.object) + 1)>>,
                      LAMBDA o : o # ""))

(* objects.find((o) => expression.startsWith(o.object)): its index, or 0 *)
FindContainer(objects, expression) ==
    IF \E i \in 1..Len(objects) : StartsWith(expression, objects[i].object)
    THEN CHOOSE i \in 1..Len(objects) :
            /\ StartsWith(expression, objects[i].object)
            /\ \A j \in 1..(i - 1) :
                  ~StartsWith(expression, objects[j].object)
    ELSE 0

(* the name a path is first given, before containers and uniqueness *)
NaturalName(node) ==
    IF isMemberExpression(node)
    THEN IF isFunctionBinding(node)
         THEN IF Len(node.segs) >= 3
              THEN node.segs[Len(node.segs) - 1]
              ELSE "prop"
         ELSE PropertyName(node)
    ELSE IF isIdentifier(node) THEN codeFromNode(node)
    ELSE "prop"

(* the container a path is routed through: member accesses that are no
   function binding look one up *)
RouteOf(objects, node) ==
    IF isMemberExpression(node) /\ ~isFunctionBinding(node)
    THEN FindContainer(objects, codeFromNode(node))
    ELSE 0

(* one turn of the forEach over the live paths: st is the binding state,
   the nodes standing at the sites and passedProps *)
BindPath(st, site, objects, produceClass) ==
    LET node == st.nodes[site]
        expression == codeFromNode(node)
        c == RouteOf(objects, node)
        propName ==
            IF c # 0 THEN matchRouteInObject(objects[c], expression)
            ELSE ensurePropertyIsUnique(st.passedProps, NaturalName(node),
                                        expression)
        passedProps ==
            IF c # 0
            THEN IF ~MapHas(st.passedProps, objects[c].property)
                 THEN MapSet(st.passedProps, objects[c].property,
                             Node(<<objects[c].object>>, FALSE))
                 ELSE st.passedProps
            ELSE IF ~MapHas(st.passedProps, propName)
                 THEN MapSet(st.passedProps, propName,
                             Node(node.segs, FALSE))
                 ELSE st.passedProps
    IN  [nodes |-> [st.nodes EXCEPT ![site] =
                      Node(createPropsExpression(produceClass, propName),
                           node.callee)],
         passedProps |-> passedProps,
         names |-> Append(st.names, propName)]

RECURSIVE BindAll(_, _, _, _)
BindAll(st, paths, objects, produceClass) ==
    IF Len(paths) = 0 THEN st
    ELSE BindAll(BindPath(st, Head(paths), objects, produceClass),
                 Tail(paths), objects, produceClass)

RECURSIVE RenderAttributes(_)
RenderAttributes(attributes) ==
    IF Len(attributes) = 0 THEN ""
    ELSE " " \o Head(attributes).key \o "={"
         \o codeFromNode(Head(attributes).value) \o "}"
         \o RenderAttributes(Tail(attributes))

(* codeFromNode(createJSXElement(name, passedProps)) *)
RenderJSXElement(name, attributes) ==
    "<" \o name \o RenderAttributes(attributes) \o " />"

----------------------------------------------------------------------------
(* BaseRefactoringStrategy.executeExtraction *)

InvalidJSX == RefactoringError("INVALID_JSX", "Invalid JSX selected", NoCause)

InvalidComponent ==
    RefactoringError("INVALID_COMPONENT",
                     "Invalid component: no parent component found", NoCause)

TypeError == PlainError("TypeError")

NoResult == [replaceJSXCode |-> "", componentCode |-> <<>>, insertAt |-> -1]

NoBinding == [nodes |-> <<>>, passedProps |-> <<>>, names |-> <<>>]

(* what leaves executeExtraction when the body threw: the wrapError of
   the strategy *)
Thrown(stage, e, cache, hp, c) ==
    [threw |-> TRUE, stage |-> stage, thrown |-> e,
     error |-> wrapError(e, "EXTRACTION_ERROR",
                         "Failed to execute extraction"),
     result |-> NoResult, cache |-> cache, heap |-> hp, tree |-> 0,
     element |-> 0, selectionCode |-> "raw", end |-> c.end,
     paths |-> <<>>, live |-> <<>>, objects |-> <<>>, bound |-> NoBinding]

(* componentType *)
ComponentType(produceClass, functionTypeConfig) ==
    IF produceClass THEN "class"
    ELSE IF functionTypeConfig = "arrowFunction" THEN "arrowFunction"
    ELSE "function"

(* the kinds of function that can enclose the selected element *)
FunctionKinds ==
    {"ArrowFunctionExpression", "FunctionExpression", "FunctionDeclaration"}

(* walkParents(path, condition, callback): the ancestors, from the nearest
   outwards, that path.findParent(condition) stops at; the condition is
   that the ancestor is of the given kind *)
walkParents(ancestors, kind) ==
    SelectSeq(ancestors, LAMBDA f : f.kind = kind)

RECURSIVE ParameterReferences(_)
(* the callback of the second walk: the references of every parameter of
   a function of one of the three kinds *)
ParameterReferences(functions) ==
    IF Len(functions) = 0 THEN <<>>
    ELSE (IF Head(functions).kind \in FunctionKinds
          THEN Head(functions).refs ELSE <<>>)
         \o ParameterReferences(Tail(functions))

(* findComponentMemberReferences: element.refs is what the component and
   the enclosing blocks yield, element.functions the functions that
   enclose the element, from the nearest outwards, each with the
   references of its parameters; the second walk stops at
   parentPath.isArrowFunctionExpression() *)
findComponentMemberReferences(element) ==
    element.refs
    \o ParameterReferences(
           walkParents(element.functions, "ArrowFunctionExpression"))

(* every key attribute captured *)
copyAndRemoveKeyAttribute_AnyKey(element) == element.key # "none"

(* copyAndRemoveKeyAttribute: the key attribute is captured and removed
   when it stands on the opening tag of the selected element itself and
   its value is an expression container *)
copyAndRemoveKeyAttribute(element) == element.key = "expression"

(* the reference paths of the selected element, the container objects and
   the rewriting of every live path *)
BindPaths(c, tree, element) ==
    LET paths == SelectSeq(findComponentMemberReferences(element),
                    LAMBDA p : isPathInRange(tree.sites[p], c.start, c.end))
        keyRemoved == copyAndRemoveKeyAttribute(element)
        passedProps0 ==
            IF keyRemoved THEN MapSet(<<>>, "key", element.keyExpr)
            ELSE <<>>
        objects == getContainerObjects(
                      [i \in 1..Len(paths) |-> tree.sites[paths[i]].node])
        live == SelectSeq(paths,
                    LAMBDA p : ~(keyRemoved /\ tree.sites[p].inKey))
    IN  [paths |-> paths, live |-> live, objects |-> objects,
         bound |-> BindAll([nodes |-> [i \in 1..Len(tree.sites) |->
                                         tree.sites[i].node],
                            passedProps |-> passedProps0, names |-> <<>>],
                           live, objects, c.produceClass)]

(* the steps after the rewriting: b is what BindPaths left; the tree in
   the heap is the one the paths were rewritten in *)
Generate(c, r, sel, b) ==
    LET tree == r.heap[r.ret]
        element == tree.elements[sel]
        keyRemoved == copyAndRemoveKeyAttribute(element)
        replaced == {b.live[k] : k \in 1..Len(b.live)}
        removed == {i \in 1..Len(tree.sites) :
                      keyRemoved /\ tree.sites[i].inKey}
        rewritten ==
            [tree EXCEPT
               !.sites = [i \in 1..Len(tree.sites) |->
                            [tree.sites[i] EXCEPT
                               !.node = b.bound.nodes[i],
                               !.located = @ /\ i \notin replaced,
                               !.removed = @ \/ i \in removed]],
               !.elements[sel].key = IF keyRemoved THEN "none" ELSE @,
               !.elements[sel].refs =
                   SelectSeq(@, LAMBDA p : p \notin removed),
               !.elements[sel].functions =
                   [i \in 1..Len(@) |->
                      [@[i] EXCEPT !.refs =
                         SelectSeq(@, LAMBDA p : p \notin removed)]]]
        hp == [r.heap EXCEPT ![r.ret] = rewritten]
        inside == {i \in 1..Len(tree.sites) :
                     /\ InRange(tree.sites[i], element.start, element.end)
                     /\ ~rewritten.sites[i].removed}
        extractedJSX ==
            [key |-> IF keyRemoved THEN "none" ELSE element.key,
             slots |-> [i \in inside |-> RenderSite(b.bound.nodes[i])]]
    IN  IF c.fault = "generator"
        THEN [Thrown("generate", TypeError, r.cache, hp, c)
                EXCEPT !.tree = r.ret, !.element = sel]
        ELSE [threw |-> FALSE, stage |-> "done", thrown |-> NoError,
              error |-> NoError,
              result |->
                [replaceJSXCode |->
                    RenderJSXElement(c.name, b.bound.passedProps),
                 componentCode |->
                    [type |-> ComponentType(c.produceClass, c.functionType),
                     name |-> c.name, jsx |-> extractedJSX],
                 insertAt |-> getComponentStartAt(element.component)],
              cache |-> r.cache, heap |-> hp, tree |-> r.ret,
              element |-> sel,
              selectionCode |->
                IF jsxToAst(c.fragment) = "false" THEN "wrapped" ELSE "raw",
              end |-> c.end, paths |-> b.paths, live |-> b.live,
              objects |-> b.objects, bound |-> b.bound]

(* the steps from the reference paths on; r is what codeToAst left, sel
   the selected element *)
BindAndRender(c, r, sel) ==
    Generate(c, r, sel,
             BindPaths(c, r.heap[r.ret], r.heap[r.ret].elements[sel]))

(* the selection check skipped *)
SelectionRejected_Never(c) == FALSE

(* !this.astService.isJSX(selectionCode) *)
SelectionRejected(c) == ~isJSX(c.fragment)

(* executeExtraction(c) from the selected element on; r is what
   codeToAst left *)
ExtractFromTree(c, r) ==
    IF r.threw
    THEN Thrown("parse", r.error, r.cache, r.heap, c)
    ELSE LET sel == findSelectedJSXElement(r.heap[r.ret], c.start, c.end)
         IN  IF sel = 0
             THEN Thrown("select", InvalidJSX, r.cache, r.heap, c)
             ELSE IF ~HasParentComponent(r.heap[r.ret].elements[sel])
             THEN Thrown("component", InvalidComponent, r.cache, r.heap, c)
             ELSE IF c.fault = "references"
             THEN Thrown("references", TypeError, r.cache, r.heap, c)
             ELSE BindAndRender(c, r, sel)

(* the outcome of executeExtraction(c) *)
executeExtraction(c) ==
    IF SelectionRejected(c)
    THEN Thrown("probe", InvalidJSX, astCache, heap, c)
    ELSE ExtractFromTree(c, codeToAst(astCache, c.code, ServicePlugins,
                                      ParserError))

----------------------------------------------------------------------------
(* executeCodeAction of lib/code-actions/extract-jsx: the same pipeline    *)
(* on the parser, the cache and the probe of lib/ast, with its own        *)
(* container filter and its own handling of function bindings, and with   *)
(* plain errors                                                           *)

(* !objectMap[key.slice(0, key.lastIndexOf('.'))]: lastIndexOf is -1 for a
   key without a dot, and slice(0, -1) drops its last character *)
NestedRootLegacy(filteredMap, key) ==
    MapHas(filteredMap,
           IF AfterLastDot(key) = 0 THEN SubSeq(key, 1, Len(key) - 1)
           ELSE SubSeq(key, 1, AfterLastDot(key) - 1))

(* getContainerObjects of lib/code-actions *)
getContainerObjectsLegacy(nodes) ==
    LET objectMap == CountRoots(nodes, <<>>)
        filteredMap == SelectSeq(objectMap, KeptRoot)
        finalMap == SelectSeq(filteredMap,
                        LAMBDA e : ~NestedRootLegacy(filteredMap, e.key))
    IN  [i \in 1..Len(finalMap) |-> ContainerOf(finalMap[i].key)]

(* path.parentPath.node of a function binding: the call x.y.bind(this) *)
BindCall(node) ==
    Node(Front(node.segs) \o <<PropertyName(node) \o "(this)">>, FALSE)

(* one turn of the forEach of executeCodeAction: for a function binding
   path becomes the parent call, after expression was rendered *)
BindPathLegacy(st, site, objects, produceClass) ==
    LET node == st.nodes[site]
        expression == codeFromNode(node)
        c == RouteOf(objects, node)
        propName ==
            IF c # 0 THEN matchRouteInObject(objects[c], expression)
            ELSE ensurePropertyIsUnique(st.passedProps, NaturalName(node),
                                        expression)
        passedProps ==
            IF c # 0
            THEN IF ~MapHas(st.passedProps, objects[c].property)
                 THEN MapSet(st.passedProps, objects[c].property,
                             Node(<<objects[c].object>>, FALSE))
                 ELSE st.passedProps
            ELSE IF ~MapHas(st.passedProps, propName)
                 THEN MapSet(st.passedProps, propName,
                             IF isFunctionBinding(node) THEN BindCall(node)
                             ELSE Node(node.segs, FALSE))
                 ELSE st.passedProps
    IN  [nodes |-> [st.nodes EXCEPT ![site] =
                      Node(createPropsExpression(produceClass, propName),
                           node.callee /\ ~isFunctionBinding(node))],
         passedProps |-> passedProps,
         names |-> Append(st.names, propName)]

RECURSIVE BindAllLegacy(_, _, _, _)
BindAllLegacy(st, paths, objects, produceClass) ==
    IF Len(paths) = 0 THEN st
    ELSE BindAllLegacy(BindPathLegacy(st, Head(paths), objects, produceClass),
                       Tail(paths), objects, produceClass)

(* the reference paths, the container objects and the rewriting, as
   executeCodeAction does them *)
BindPathsLegacy(c, tree, element) ==
    LET paths == SelectSeq(findComponentMemberReferences(element),
                    LAMBDA p : isPathInRange(tree.sites[p], c.start, c.end))
        keyRemoved == copyAndRemoveKeyAttribute(element)
        passedProps0 ==
            IF keyRemoved THEN MapSet(<<>>, "key", element.keyExpr)
            ELSE <<>>
        objects == getContainerObjectsLegacy(
                      [i \in 1..Len(paths) |-> tree.sites[paths[i]].node])
        live == SelectSeq(paths,
                    LAMBDA p : ~(keyRemoved /\ tree.sites[p].inKey))
    IN  [paths |-> paths, live |-> live, objects |-> objects,
         bound |-> BindAllLegacy([nodes |-> [i \in 1..Len(tree.sites) |->
                                               tree.sites[i].node],
                                  passedProps |-> passedProps0,
                                  names |-> <<>>],
                                 live, objects, c.produceClass)]

(* what executeCodeAction throws leaves it as it is *)
Unwrapped(o) == IF o.threw THEN [o EXCEPT !.error = o.thrown] ELSE o

(* executeCodeAction from the parse on; r is what codeToAst of lib/ast
   left *)
ExtractFromTreeLegacy(c, r) ==
    IF r.threw
    THEN Thrown("parse", r.error, r.cache, r.heap, c)
    ELSE LET sel == findSelectedJSXElement(r.heap[r.ret], c.start, c.end)
         IN  IF sel = 0
             THEN Thrown("select", PlainError("Invalid JSX selected"),
                         r.cache, r.heap, c)
             ELSE IF ~HasParentComponent(r.heap[r.ret].elements[sel])
             THEN Thrown("component", PlainError("Invalid component"),
                         r.cache, r.heap, c)
             ELSE IF c.fault = "references"
             THEN Thrown("references", TypeError, r.cache, r.heap, c)
             ELSE Generate(c, r, sel,
                           BindPathsLegacy(c, r.heap[r.ret],
                                           r.heap[r.ret].elements[sel]))

(* the probe of lib/ast reads the parser options once the fragment stands
   between '<' and '>' *)
OptionsRead(c) == c.fragment.first = "<" /\ c.fragment.last = ">"

(* the cache of lib/ast after getParserOptions ran in the probe *)
ProbedCache(c) ==
    IF OptionsRead(c) /\ cachedConfigKey # pluginsConfig THEN <<>>
    ELSE libCache

(* the outcome of executeCodeAction(name, code, start, end, produceClass) *)
executeCodeAction(c) ==
    Unwrapped(
        IF ~isJSX(c.fragment)
        THEN Thrown("probe", PlainError("Invalid JSX selected;"),
                    ProbedCache(c), heap, c)
        ELSE ExtractFromTreeLegacy(c,
                 codeToAst(ProbedCache(c), c.code, PluginsOf(pluginsConfig),
                           SyntaxError)))

----------------------------------------------------------------------------
(* Extraction inputs: documents with one selection *)

Component(kind, start, comments) ==
    [kind |-> kind, start |-> start, comments |-> comments]

Element(start, end, key, keyExpr, component, refs) ==
    [start |-> start, end |-> end, key |-> key, keyExpr |-> keyExpr,
     component |-> component, refs |-> refs, functions |-> <<>>]

SelStart == 10
SelEnd == 60

(* the i-th reference site of a document: inside the selected element,
   inside its key attribute, or after the selection *)
Site(choice, i) ==
    [node |-> choice.node,
     start |-> IF choice.where = "outside" THEN SelEnd + 4 * i
               ELSE SelStart + 4 * i,
     end |-> IF choice.where = "outside" THEN SelEnd + 4 * i + 3
             ELSE SelStart + 4 * i + 3,
     inKey |-> choice.where = "key", located |-> TRUE,
     removed |-> FALSE]

Palette ==
    {Node(<<"this", "state", "x">>, FALSE),
     Node(<<"this", "state", "user", "name">>, FALSE),
     Node(<<"this", "state", "user", "age">>, FALSE),
     Node(<<"this", "handle", "bind">>, TRUE),
     Node(<<"item", "id">>, FALSE),
     Node(<<"item", "name">>, FALSE),
     Node(<<"items", "length">>, FALSE),
     Node(<<"value">>, FALSE),
     Node(<<"a", "value">>, FALSE),
     Node(<<"b", "value">>, FALSE),
     Node(<<"props", "value">>, FALSE)}

KeyExpression == Node(<<"item", "id">>, FALSE)

SiteChoices ==
    {[node |-> n, where |-> "inside"] : n \in Palette}
    \cup {[node |-> KeyExpression, where |-> "key"],
          [node |-> Node(<<"props", "value">>, FALSE), where |-> "outside"]}

SiteSeqs == UNION {[1..n -> SiteChoices] : n \in 0..MaxRefs}

ExtractDoc(n, ok, elements, sites) ==
    [prefix |-> 20, rest |-> 0, length |-> n, needs |-> {"jsx"},
     wellFormed |-> ok, stmts |-> 1, elements |-> elements, sites |-> sites]

JSXElementFragment == Fragment("<", ">", "JSXElement")

Scenario(code, start, end, produceClass, fragment, wrapped, fault, ft) ==
    [name |-> "Bar", code |-> code, start |-> start, end |-> end,
     produceClass |-> produceClass, fragment |-> fragment,
     wrapped |-> wrapped, fault |-> fault, functionType |-> ft]

(* a well-formed document whose selection is one JSX element of a
   component, with the reference sites the resolver reports; dup: the
   resolver reports the first site twice *)
BindingDoc(choices, key, dup, comments) ==
    ExtractDoc(1500, TRUE,
        <<Element(SelStart, SelEnd, key, KeyExpression,
                  Component("ClassDeclaration", 4, comments),
                  IF dup THEN [i \in 1..(Len(choices) + 1) |->
                                 IF i <= Len(choices) THEN i ELSE 1]
                  ELSE [i \in 1..Len(choices) |-> i])>>,
        [i \in 1..Len(choices) |-> Site(choices[i], i)])

(* the key attribute of a selection: none, one with an expression or with
   a string literal on the selected element, or one with an expression on
   a descendant of it *)
KeyKinds == {"none", "expression", "string", "descendant"}

(* a site inside the key attribute needs a key attribute with an
   expression; a path reported twice needs a path *)
WellFormedBinding(choices, key, dup) ==
    /\ (\E i \in 1..Len(choices) : choices[i].where = "key")
         => key \in {"expression", "descendant"}
    /\ dup => Len(choices) > 0

BindingScenario(choices, key, dup, pc) ==
    Scenario(BindingDoc(choices, key, dup, <<>>), SelStart, SelEnd, pc,
             JSXElementFragment, JSXElementFragment, "none", "function")

(* selections the probe judges, documents that do not parse, selections
   without an element or without a component, and library faults *)
PlainDoc(ok, elements) == ExtractDoc(500, ok, elements, <<>>)

OneElement(start, end, kind, comments) ==
    <<Element(start, end, "none", KeyExpression,
              Component(kind, 4, comments), <<>>)>>

ProbeFragments ==
    {Fragment("j", "t", "throws"),
     Fragment("<", ">", "throws"),
     Fragment("<", ">", "array"),
     Fragment("<", ">", "null"),
     Fragment("<", ">", "Expression"),
     Fragment("<", ">", "Statement"),
     Fragment("<", ">", "JSXFragment"),
     Fragment("", "", "throws"),
     JSXElementFragment}

WrappedFragments == {JSXElementFragment, Fragment("<", ">", "throws")}

PipelineElements ==
    {<<>>,
     OneElement(SelStart, SelEnd, "none", <<>>),
     OneElement(SelStart + 2, SelEnd - 2, "FunctionDeclaration", <<1>>),
     OneElement(SelStart, SelEnd, "VariableDeclarator", <<0>>),
     OneElement(SelStart - 2, SelEnd, "ClassDeclaration", <<>>)}

Faults == {"none", "references", "generator"}

FunctionTypes == {"function", "arrowFunction"}

(* an element that starts at offset 0 of the document *)
OffsetZeroScenario(pc) ==
    Scenario(PlainDoc(TRUE, OneElement(0, SelEnd, "none", <<>>)),
             0, SelEnd, pc, JSXElementFragment, JSXElementFragment,
             "none", "function")

(* a selection that is a JSX fragment <>...</> of a component, with the
   given number of child elements next to each other *)
FragmentChildren(n) ==
    [i \in 1..n |->
       Element(SelStart + 2 + 20 * (i - 1), SelStart + 20 * i, "none",
               KeyExpression, Component("ClassDeclaration", 4, <<>>), <<>>)]

FragmentScenario(n, pc) ==
    Scenario(PlainDoc(TRUE, FragmentChildren(n)), SelStart, SelEnd, pc,
             Fragment("<", ">", "JSXFragment"), JSXElementFragment,
             "none", "function")

ContainerRefs == 4   \* references of a selection with shared roots

(* references whose roots nest (a, a.b, a.b.c), a reference on this, and
   two roots of which one's text begins with the other's (item, items) *)
ContainerPalette ==
    {Node(<<"a", "x">>, FALSE),
     Node(<<"a", "b", "x">>, FALSE),
     Node(<<"a", "b", "c", "x">>, FALSE),
     Node(<<"this", "x">>, FALSE),
     Node(<<"item", "id">>, FALSE),
     Node(<<"items", "length">>, FALSE)}

(* an identifier b and references whose roots a.b and c.b end in the same
   segment b *)
SharedPropertyPalette ==
    {Node(<<"b">>, FALSE),
     Node(<<"a", "b", "x">>, FALSE),
     Node(<<"c", "b", "x">>, FALSE)}

(* a selection whose references are the given nodes, in document order *)
ContainerScenario(nodes, pc) ==
    BindingScenario([i \in 1..Len(nodes) |->
                        [node |-> nodes[i], where |-> "inside"]],
                    "none", FALSE, pc)

(* a selection inside two nested functions of the given kinds, as in
   items.map(function (item) {...}): the inner one has the parameter item,
   read as item.id in the selection, the outer one the parameter a, read
   as a.value *)
EnclosedScenario(inner, outer, pc) ==
    Scenario(
        ExtractDoc(1500, TRUE,
            <<[Element(SelStart, SelEnd, "none", KeyExpression,
                       Component("ClassDeclaration", 4, <<>>), <<>>)
                 EXCEPT !.functions =
                     <<[kind |-> inner, refs |-> <<1>>],
                       [kind |-> outer, refs |-> <<2>>]>>]>>,
            <<Site([node |-> Node(<<"item", "id">>, FALSE),
                    where |-> "inside"], 1),
              Site([node |-> Node(<<"a", "value">>, FALSE),
                    where |-> "inside"], 2)>>),
        SelStart, SelEnd, pc, JSXElementFragment, JSXElementFragment,
        "none", "function")

(* what an execution leaves behind: its outcome, the cache and the trees *)
Leaves(o) ==
    /\ outcome' = o
    /\ astCache' = o.cache
    /\ heap' = o.heap

(* strategy.execute(context) *)
Execute(c) ==
    /\ Leaves(executeExtraction(c))
    /\ ctx' = c
    /\ executions' = executions + 1
    /\ UNCHANGED <<now, pluginsConfig, epoch, libCache, cachedConfigKey,
                   calls, ticks, call, last, coreVars>>

(* the inputs of an execution are drawn for the first one *)
ExecutionDue == executions = 0

ExecuteBinding ==
    /\ ExecutionDue
    /\ \E choices \in SiteSeqs, key \in KeyKinds, dup \in BOOLEAN,
          pc \in BOOLEAN :
          /\ WellFormedBinding(choices, key, dup)
          /\ Execute(BindingScenario(choices, key, dup, pc))
    /\ UNCHANGED commandVars

ExecutePipeline ==
    /\ ExecutionDue
    /\ \E ok \in BOOLEAN, elements \in PipelineElements, pc \in BOOLEAN,
          f \in ProbeFragments, w \in WrappedFragments, fault \in Faults,
          ft \in FunctionTypes :
          Execute(Scenario(PlainDoc(ok, elements), SelStart, SelEnd, pc,
                           f, w, fault, ft))
    /\ UNCHANGED commandVars

ExecuteOffsetZero ==
    /\ ExecutionDue
    /\ \E pc \in BOOLEAN : Execute(OffsetZeroScenario(pc))
    /\ UNCHANGED commandVars

ExecuteFragment ==
    /\ ExecutionDue
    /\ \E n \in 0..2, pc \in BOOLEAN : Execute(FragmentScenario(n, pc))
    /\ UNCHANGED commandVars

ExecuteContainers ==
    /\ ExecutionDue
    /\ \E nodes \in [1..ContainerRefs -> ContainerPalette] :
          Execute(ContainerScenario(nodes, FALSE))
    /\ UNCHANGED commandVars

ExecuteSharedProperty ==
    /\ ExecutionDue
    /\ \E nodes \in [1..ContainerRefs -> SharedPropertyPalette] :
          Execute(ContainerScenario(nodes, FALSE))
    /\ UNCHANGED commandVars

ExecuteEnclosed ==
    /\ ExecutionDue
    /\ \E inner \in FunctionKinds, outer \in FunctionKinds, pc \in BOOLEAN :
          Execute(EnclosedScenario(inner, outer, pc))
    /\ UNCHANGED commandVars

(* the extraction is asked for again, as a function or as a class, the
   document and the selection being what they were *)
ExecuteAgain ==
    /\ executions > 0
    /\ executions < MaxExecutions
    /\ \E pc \in BOOLEAN : Execute([ctx EXCEPT !.produceClass = pc])
    /\ UNCHANGED commandVars

(* what executeCodeAction leaves behind: its outcome, the cache of lib/ast
   and the trees *)
LeavesLegacy(o) ==
    /\ outcome' = o
    /\ libCache' = o.cache
    /\ heap' = o.heap

(* executeCodeAction(name, code, start, end, produceClass) *)
ExecuteLegacy(c) ==
    /\ LeavesLegacy(executeCodeAction(c))
    /\ cachedConfigKey' =
         IF OptionsRead(c) THEN pluginsConfig ELSE cachedConfigKey
    /\ ctx' = c
    /\ executions' = executions + 1
    /\ UNCHANGED <<now, pluginsConfig, epoch, astCache, calls, ticks, call,
                   last, commandVars, coreVars>>

(* the selections of ExecuteBinding but those whose function binding is
   reported twice: on its second turn executeCodeAction reads the callee of
   the node that replaced the call, and the TypeError leaves a tree that is
   rewritten in part *)
ExecuteLegacyBinding ==
    /\ ExecutionDue
    /\ \E choices \in SiteSeqs, key \in KeyKinds, dup \in BOOLEAN,
          pc \in BOOLEAN :
          /\ WellFormedBinding(choices, key, dup)
          /\ ~(dup /\ isFunctionBinding(choices[1].node))
          /\ ExecuteLegacy(BindingScenario(choices, key, dup, pc))

ExecuteLegacyPipeline ==
    /\ ExecutionDue
    /\ \E ok \in BOOLEAN, elements \in PipelineElements,
          f \in ProbeFragments, fault \in Faults :
          ExecuteLegacy(Scenario(PlainDoc(ok, elements), SelStart, SelEnd,
                                 FALSE, f, JSXElementFragment, fault,
                                 "function"))

ExecuteLegacyContainers ==
    /\ ExecutionDue
    /\ \E nodes \in [1..ContainerRefs -> ContainerPalette] :
          ExecuteLegacy(ContainerScenario(nodes, FALSE))

ExecuteLegacyAgain ==
    /\ executions > 0
    /\ executions < MaxExecutions
    /\ \E pc \in BOOLEAN : ExecuteLegacy([ctx EXCEPT !.produceClass = pc])

NextLegacy ==
    \/ ExecuteLegacyBinding
    \/ ExecuteLegacyPipeline
    \/ ExecuteLegacyContainers
    \/ ExecuteLegacyAgain

SpecLegacy == Init /\ [][NextLegacy]_vars

NextExtract ==
    \/ ExecuteBinding
    \/ ExecutePipeline
    \/ ExecuteOffsetZero
    \/ ExecuteFragment
    \/ ExecuteContainers
    \/ ExecuteSharedProperty
    \/ ExecuteEnclosed
    \/ ExecuteAgain

(* ASTService parses with its own plugin list and never reads the
   babelPlugins setting: the extractions are run under one value of it *)
InitExtract == Init /\ pluginsConfig = "jsx, typescript"

SpecExtract == InitExtract /\ [][NextExtract]_vars

----------------------------------------------------------------------------
(* The extract commands: extension.react-refactor.extractToFunction and    *)
(* extractToClass run RefactoringService.extractToComponent; a step is the *)
(* code between two awaits on the editor.                                  *)

(* s.charAt(0).toUpperCase() for the letters the inputs begin with *)
ToUpperCase(ch) ==
    CASE ch = "b" -> "B"
      [] ch = "m" -> "M"
      [] OTHER -> ch

RECURSIVE normalizeComponentName(_)
(* the words that split(/[\s-_]+/) leaves, capitalized and joined *)
normalizeComponentName(words) ==
    IF Len(words) = 0 THEN ""
    ELSE ToUpperCase(SubSeq(Head(words), 1, 1))
         \o SubSeq(Head(words), 2, Len(Head(words)))
         \o normalizeComponentName(Tail(words))

(* what the user types into the input box, as words; <<>> is an empty or
   dismissed box *)
PromptInputs == {<<>>, <<"bar">>, <<"my", "bar">>}

(* the handler's catch running the pipeline's report a second time *)
Failed_ShownTwice(r, at, e) ==
    LET error == wrapError(e, "EXTRACTION_ERROR",
                           "Failed to extract component")
    IN  [r EXCEPT !.pc = "done", !.failedAt = at, !.error = error,
                  !.shown = @ \o <<"Failed to extract component: "
                                     \o error.message,
                                   "Failed to extract component: "
                                     \o error.message>>]

(* the catch of the command handler around extractToComponent and its
   wrapError: one error message is shown *)
Failed(r, at, e) ==
    LET error == wrapError(e, "EXTRACTION_ERROR",
                           "Failed to extract component")
    IN  [r EXCEPT !.pc = "done", !.failedAt = at, !.error = error,
                  !.shown = Append(@, "Failed to extract component: "
                                      \o error.message)]

(* the selection alone is replaced *)
EditBuilder_ReplaceOnly(c, result) ==
    <<[kind |-> "replace", from |-> c.start, to |-> c.end,
       text |-> result.replaceJSXCode]>>

(* the edits the callback of editor.edit records: from and to are offsets,
   lineOf the offset whose line the insertion starts *)
EditBuilder(c, result) ==
    <<[kind |-> "replace", from |-> c.start, to |-> c.end,
       text |-> result.replaceJSXCode],
      [kind |-> "insert", lineOf |-> result.insertAt,
       text |-> result.componentCode]>>

(* the command is invoked: requireActiveEditor, then the input box opens *)
InvokeCommand(produceClass, hasEditor) ==
    /\ run.pc \in {"idle", "done"}
    /\ run.number < MaxRuns
    /\ run' = IF hasEditor
              THEN [IdleRun EXCEPT !.pc = "prompt",
                                   !.number = run.number + 1,
                                   !.produceClass = produceClass]
              ELSE Failed([IdleRun EXCEPT !.number = run.number + 1,
                                          !.produceClass = produceClass],
                          "editor",
                          RefactoringError("NO_EDITOR",
                                           "No active editor found", NoCause))
    /\ UNCHANGED <<cacheVars, extractVars, coreVars>>

(* the input box closes without a name *)
PromptDismissed(input) ==
    /\ run.pc = "prompt"
    /\ normalizeComponentName(input) = ""
    /\ run' = Failed(run, "prompt",
                     RefactoringError("EXTRACTION_ERROR",
                                      "Component name is required", NoCause))
    /\ UNCHANGED <<cacheVars, extractVars, coreVars>>

(* the input box closes with a name: the document is read, the strategy
   runs, and editor.edit is called with both edits *)
PromptAnswered(input, c) ==
    /\ run.pc = "prompt"
    /\ normalizeComponentName(input) # ""
    /\ Execute([c EXCEPT !.name = normalizeComponentName(input),
                         !.produceClass = run.produceClass])
    /\ run' = IF outcome'.threw
              THEN Failed([run EXCEPT !.name = ctx'.name], "execute",
                          outcome'.error)
              ELSE [run EXCEPT !.pc = "edit", !.name = ctx'.name]

(* the editor answers editor.edit: the recorded edits are applied
   together or, when the editor refuses, not at all; extractToComponent
   goes on to the format command *)
EditApplied(applied) ==
    /\ run.pc = "edit"
    /\ run' = [run EXCEPT !.pc = "format",
                          !.edits = IF applied
                                    THEN EditBuilder(ctx, outcome.result)
                                    ELSE <<>>]
    /\ UNCHANGED <<cacheVars, extractVars, coreVars>>

(* editor.action.formatDocument settles; resetSelection follows *)
FormatSettled(resolved) ==
    /\ run.pc = "format"
    /\ run' = IF resolved
              THEN [run EXCEPT !.pc = "done", !.formatted = TRUE,
                               !.selectionReset = TRUE]
              ELSE Failed(run, "format", PlainError("command failed"))
    /\ UNCHANGED <<cacheVars, extractVars, coreVars>>

(* the documents and selections of the command runs *)
CommandScenarios ==
    {Scenario(PlainDoc(ok, elements), SelStart, SelEnd, FALSE, f,
              JSXElementFragment, fault, "function") :
        ok \in BOOLEAN, elements \in PipelineElements,
        f \in {JSXElementFragment, Fragment("j", "t", "throws")},
        fault \in Faults}
    \cup {BindingScenario(choices, "none", FALSE, FALSE) :
             choices \in {q \in SiteSeqs : Len(q) <= 1}}

Next ==
    \/ \E produceClass \in BOOLEAN, hasEditor \in BOOLEAN :
          InvokeCommand(produceClass, hasEditor)
    \/ \E input \in PromptInputs : PromptDismissed(input)
    \/ \E input \in PromptInputs, c \in CommandScenarios :
          PromptAnswered(input, c)
    \/ \E applied \in BOOLEAN : EditApplied(applied)
    \/ \E resolved \in BOOLEAN : FormatSettled(resolved)

Spec == Init /\ [][Next]_vars

----------------------------------------------------------------------------
(* retryWithBackoff(fn, maxRetries, initialDelay) of core/errors; a step   *)
(* is the code between two awaits: on fn() and on the timer.               *)

MaxRetries == 3       \* largest maxRetries passed

(* the arguments passed *)
RetryCounts == (0 - 1)..MaxRetries

InitialDelays == {0, 100, 150}

(* what fn resolves with, and what it rejects with: two Error objects with
   the same message, and a string *)
FnResults == {"r1", "r2"}

FnRejections ==
    {ThrownValue(TRUE, "e1", "boom"), ThrownValue(TRUE, "e2", "boom"),
     ThrownValue(FALSE, "none", "boom")}

RECURSIVE Pow2(_)
(* 2 ** attempt *)
Pow2(k) == IF k = 0 THEN 1 ELSE 2 * Pow2(k - 1)

(* error instanceof Error ? error : new Error(String(error)) *)
ToError(error) ==
    IF error.isError THEN error
    ELSE ThrownValue(TRUE, "new", error.message)

(* a delay after every failed attempt *)
AnotherAttemptFollows_Always(attempt, maxRetries) == TRUE

(* attempt < maxRetries - 1 *)
AnotherAttemptFollows(attempt, maxRetries) == attempt < maxRetries - 1

(* the head of the loop with the counter at attempt: fn is called, or the
   loop is left and the function throws *)
LoopHead(r, attempt) ==
    IF attempt < r.maxRetries
    THEN [r EXCEPT !.pc = "fn", !.attempt = attempt, !.calls = @ + 1]
    ELSE [r EXCEPT !.pc = "thrown", !.attempt = attempt,
                   !.thrown =
                      IF r.lastError = NoValue
                      THEN ThrownValue(TRUE, "new",
                                       "Retry failed with no error")
                      ELSE r.lastError]

(* retryWithBackoff is called *)
RetryCalled(maxRetries, initialDelay) ==
    /\ retry.pc = "idle"
    /\ retry' = LoopHead([IdleRetry EXCEPT !.maxRetries = maxRetries,
                                           !.initialDelay = initialDelay],
                         0)
    /\ UNCHANGED <<cacheVars, extractVars, commandVars, container, served>>

(* the promise of fn() resolves: its value is returned *)
FnResolved(value) ==
    /\ retry.pc = "fn"
    /\ retry' = [retry EXCEPT !.pc = "returned", !.result = value]
    /\ UNCHANGED <<cacheVars, extractVars, commandVars, container, served>>

(* fn() throws or its promise rejects: the catch keeps the error and
   either starts the timer or goes round the loop *)
FnRejected(error) ==
    /\ retry.pc = "fn"
    /\ LET caught == [retry EXCEPT !.lastError = ToError(error),
                                   !.rejections = Append(@, error)]
       IN  retry' =
             IF AnotherAttemptFollows(retry.attempt, retry.maxRetries)
             THEN [caught EXCEPT
                     !.pc = "timer",
                     !.delays = Append(@, retry.initialDelay
                                            * Pow2(retry.attempt))]
             ELSE LoopHead(caught, retry.attempt + 1)
    /\ UNCHANGED <<cacheVars, extractVars, commandVars, container, served>>

(* the timer fires: the loop goes round *)
TimerFired ==
    /\ retry.pc = "timer"
    /\ retry' = LoopHead(retry, retry.attempt + 1)
    /\ UNCHANGED <<cacheVars, extractVars, commandVars, container, served>>

NextRetry ==
    \/ \E maxRetries \in RetryCounts, initialDelay \in InitialDelays :
          RetryCalled(maxRetries, initialDelay)
    \/ \E value \in FnResults : FnResolved(value)
    \/ \E error \in FnRejections : FnRejected(error)
    \/ TimerFired

SpecRetry == Init /\ [][NextRetry]_vars

----------------------------------------------------------------------------
(* ServiceContainer of core/di and bootstrap() of core/bootstrap.  Every   *)
(* method is synchronous: an action is one call.                           *)

MaxContainerOps == 3   \* calls on the container in a behaviour

(* a factory: the class it constructs and the keys it gets from the
   container first *)
Factory(class, deps) == [class |-> class, deps |-> deps]

NoFactory == Factory("none", <<>>)

(* what a call leaves: the container, and the value or the error *)
Got(c, value) ==
    [c |-> c, threw |-> FALSE, value |-> value, values |-> <<>>,
     message |-> ""]

GotAll(c, values) ==
    [c |-> c, threw |-> FALSE, value |-> NoInstance, values |-> values,
     message |-> ""]

ServiceNotFound(c, key) ==
    [c |-> c, threw |-> TRUE, value |-> NoInstance, values |-> <<>>,
     message |-> "Service not found: " \o key]

RECURSIVE get(_, _), GetAll(_, _, _)

(* the factory's body after its container.get calls: new Class(...) *)
Construct(factory, deps) ==
    IF deps.threw THEN deps
    ELSE Got([deps.c EXCEPT !.created = @ + 1],
             Instance(factory.class, deps.c.created + 1, deps.values))

(* factory() *)
Invoke(c, factory) == Construct(factory, GetAll(c, factory.deps, <<>>))

GetNext(r, keys, values) ==
    IF r.threw THEN r ELSE GetAll(r.c, keys, Append(values, r.value))

(* the container.get calls of a factory, in order *)
GetAll(c, keys, values) ==
    IF keys = <<>> THEN GotAll(c, values)
    ELSE GetNext(get(c, Head(keys)), Tail(keys), values)

(* get(key) *)
get(c, key) ==
    IF MapHas(c.singletons, key) THEN Got(c, MapGet(c.singletons, key))
    ELSE IF MapHas(c.factories, key)
    THEN Invoke(c, MapGet(c.factories, key))
    ELSE IF MapHas(c.services, key) THEN Got(c, MapGet(c.services, key))
    ELSE ServiceNotFound(c, key)

(* register(key, factory) *)
register(c, key, factory) ==
    Got([c EXCEPT !.factories = MapSet(@, key, factory)], NoInstance)

SetSingleton(key, made) ==
    IF made.threw THEN made
    ELSE Got([made.c EXCEPT !.singletons = MapSet(@, key, made.value)],
             NoInstance)

(* the factory is run and its instance stored whether or not the key has
   a singleton *)
registerSingleton_Overwrites(c, key, factory) ==
    SetSingleton(key, Invoke(c, factory))

(* registerSingleton(key, factory) *)
registerSingleton(c, key, factory) ==
    IF ~MapHas(c.singletons, key)
    THEN SetSingleton(key, Invoke(c, factory))
    ELSE Got(c, NoInstance)

(* registerInstance(key, instance) *)
registerInstance(c, key, instance) ==
    Got([c EXCEPT !.services = MapSet(@, key, instance)], NoInstance)

(* has(key) *)
has(c, key) ==
    MapHas(c.services, key) \/ MapHas(c.factories, key)
        \/ MapHas(c.singletons, key)

(* clear() *)
clear(c) ==
    [c EXCEPT !.services = <<>>, !.factories = <<>>, !.singletons = <<>>]

(* ServiceKeys, and the keys bootstrap composes *)
ServiceKeys ==
    [VSCodeService |-> "vscode.service",
     BabelService |-> "babel.service",
     ASTService |-> "ast.service",
     ComponentGeneratorFactory |-> "component.generator.factory",
     RefactoringStrategy |-> "refactoring.strategy",
     Container |-> "container"]

ExtractKey == ServiceKeys.RefactoringStrategy \o ".extract"

ExtractToFileKey == ServiceKeys.RefactoringStrategy \o ".extractToFile"

RefactoringServiceKey == "refactoring.service"

Registration(op, key, factory, instance) ==
    [op |-> op, key |-> key, factory |-> factory, instance |-> instance]

StrategyDeps ==
    <<ServiceKeys.ASTService, ServiceKeys.ComponentGeneratorFactory,
      ServiceKeys.VSCodeService>>

(* the registrations with refactoring.service registered before the
   strategies it gets *)
BootstrapRegistrations_ServiceFirst ==
    <<Registration("registerInstance", ServiceKeys.Container, NoFactory,
                   Instance("ServiceContainer", 0, <<>>)),
      Registration("registerSingleton", ServiceKeys.VSCodeService,
                   Factory("VSCodeService", <<>>), NoInstance),
      Registration("registerSingleton", ServiceKeys.BabelService,
                   Factory("BabelService", <<>>), NoInstance),
      Registration("registerSingleton", ServiceKeys.ASTService,
                   Factory("ASTService", <<ServiceKeys.BabelService>>),
                   NoInstance),
      Registration("registerSingleton",
                   ServiceKeys.ComponentGeneratorFactory,
                   Factory("ComponentGeneratorFactory", <<>>), NoInstance),
      Registration("registerSingleton", RefactoringServiceKey,
                   Factory("RefactoringService",
                           <<ServiceKeys.VSCodeService,
                             ServiceKeys.ASTService, ExtractKey,
                             ExtractToFileKey>>),
                   NoInstance),
      Registration("register", ExtractKey,
                   Factory("ExtractToComponentStrategy", StrategyDeps),
                   NoInstance),
      Registration("register", ExtractToFileKey,
                   Factory("ExtractToFileStrategy", StrategyDeps),
                   NoInstance)>>

(* the calls bootstrap makes on its container, in order *)
BootstrapRegistrations ==
    <<Registration("registerInstance", ServiceKeys.Container, NoFactory,
                   Instance("ServiceContainer", 0, <<>>)),
      Registration("registerSingleton", ServiceKeys.VSCodeService,
                   Factory("VSCodeService", <<>>), NoInstance),
      Registration("registerSingleton", ServiceKeys.BabelService,
                   Factory("BabelService", <<>>), NoInstance),
      Registration("registerSingleton", ServiceKeys.ASTService,
                   Factory("ASTService", <<ServiceKeys.BabelService>>),
                   NoInstance),
      Registration("registerSingleton",
                   ServiceKeys.ComponentGeneratorFactory,
                   Factory("ComponentGeneratorFactory", <<>>), NoInstance),
      Registration("register", ExtractKey,
                   Factory("ExtractToComponentStrategy", StrategyDeps),
                   NoInstance),
      Registration("register", ExtractToFileKey,
                   Factory("ExtractToFileStrategy", StrategyDeps),
                   NoInstance),
      Registration("registerSingleton", RefactoringServiceKey,
                   Factory("RefactoringService",
                           <<ServiceKeys.VSCodeService,
                             ServiceKeys.ASTService, ExtractKey,
                             ExtractToFileKey>>),
                   NoInstance)>>

(* one call of the sequence *)
Register(c, r) ==
    CASE r.op = "registerInstance" -> registerInstance(c, r.key, r.instance)
      [] r.op = "registerSingleton" -> registerSingleton(c, r.key, r.factory)
      [] OTHER -> register(c, r.key, r.factory)

RECURSIVE RegisterAll(_, _)
(* the calls in order, up to the first that throws *)
RegisterAll(made, registrations) ==
    IF made.threw \/ registrations = <<>> THEN made
    ELSE RegisterAll(Register(made.c, Head(registrations)),
                     Tail(registrations))

(* bootstrap(): a new container with the registrations made; created is
   the number of objects made before *)
bootstrap(created) ==
    RegisterAll(Got(NewServiceContainer(created), NoInstance),
                BootstrapRegistrations)

(* strategy.canHandle(type) *)
canHandle(strategy, type) ==
    \/ strategy.class = "ExtractToComponentStrategy" /\ type = "extract"
    \/ strategy.class = "ExtractToFileStrategy" /\ type = "extractToFile"

(* RefactoringService.strategies: the third constructor argument *)
StrategiesOf(service) == SubSeq(service.deps, 3, Len(service.deps))

(* the keys and factories of the calls made on the container from outside
   bootstrap: two keys that bootstrap registers, one that nothing does *)
ContainerKeys ==
    {ServiceKeys.VSCodeService, RefactoringServiceKey, ExtractKey, "unknown"}

ContainerFactories == {Factory("F", <<>>), Factory("G", <<>>)}

ContainerInstances == {Instance("I", 0, <<>>)}

(* what the maps and the answer are after a call that left made *)
Serves(name, key, made) ==
    /\ served.ops < MaxContainerOps
    /\ container' = made.c
    /\ served' = Served(name, key, made.threw, made.value, made.message,
                        served.ops + 1)
    /\ UNCHANGED <<cacheVars, extractVars, commandVars, retry>>

(* activate calls bootstrap(): the container it returns replaces the one
   in use; when bootstrap throws there is none *)
BootstrapCalled ==
    Serves("bootstrap", "", bootstrap(container.created))

GetCalled(key) == Serves("get", key, get(container, key))

RegisterCalled(key, factory) ==
    Serves("register", key, register(container, key, factory))

RegisterSingletonCalled(key, factory) ==
    Serves("registerSingleton", key,
           registerSingleton(container, key, factory))

RegisterInstanceCalled(key, instance) ==
    Serves("registerInstance", key,
           registerInstance(container, key, instance))

ClearCalled == Serves("clear", "", Got(clear(container), NoInstance))

NextContainer ==
    \/ BootstrapCalled
    \/ \E key \in ContainerKeys : GetCalled(key)
    \/ \E key \in ContainerKeys, factory \in ContainerFactories :
          RegisterCalled(key, factory)
    \/ \E key \in ContainerKeys, factory \in ContainerFactories :
          RegisterSingletonCalled(key, factory)
    \/ \E key \in ContainerKeys, instance \in ContainerInstances :
          RegisterInstanceCalled(key, instance)
    \/ ClearCalled

SpecContainer == Init /\ [][NextContainer]_vars

----------------------------------------------------------------------------
(* Properties of the extraction *)

Executed == outcome.stage # "idle"

Succeeded == outcome.stage = "done"

(* the paths of the selected element that the extraction has to rewrite:
   inside [start, end] and not removed with the key attribute *)
LiveSites(doc, element, start, end) ==
    {element.refs[k] : k \in
        {j \in 1..Len(element.refs) :
            /\ InRange(doc.sites[element.refs[j]], start, end)
            /\ ~(element.key = "expression"
                 /\ doc.sites[element.refs[j]].inKey)}}

PropsPrefix(produceClass) ==
    IF produceClass THEN "this.props." ELSE "props."

(* C1 as stated: after execute(context) succeeds, every external
   reference of the document inside [start, end] that was not removed with
   the key attribute stands in the extracted markup as a member access on
   the props object: props.<name> for a function component and
   this.props.<name> for a class component *)
C1_ReferencesReplacedByProps ==
    Succeeded =>
        LET doc == heap[outcome.tree].text
            element == doc.elements[outcome.element]
            slots == outcome.result.componentCode.jsx.slots
        IN  \A p \in LiveSites(doc, element, ctx.start, ctx.end) :
                /\ p \in DOMAIN slots
                /\ StartsWith(slots[p], PropsPrefix(ctx.produceClass))
                /\ Len(slots[p]) > Len(PropsPrefix(ctx.produceClass))

(* C3 as stated: when the probe rejects the raw fragment and the fragment
   wrapped in <div>...</div> is parseable, execute does not fail on the
   selection: it goes on with the wrapped form and a shifted end *)
C3_WrappedSelectionExtracted ==
    (Executed /\ ~isJSX(ctx.fragment) /\ isJSX(ctx.wrapped)) =>
        /\ outcome.stage # "probe"
        /\ outcome.selectionCode = "wrapped"
        /\ outcome.end # ctx.end

(* what the probe is specified to answer for a fragment *)
IsMarkup(fragment) ==
    /\ fragment.first = "<"
    /\ fragment.last = ">"
    /\ fragment.template \in {"JSXElement", "JSXFragment"}

(* C12: isJSX(fragment) is total and never raises to its caller: it
   answers true exactly when the trimmed fragment starts with '<', ends
   with '>' and parses as a single expression statement whose expression
   is a JSX element or fragment, and false for every other input (the empty
   string, a parse failure, several statements, a non-JSX expression); the
   caller sees the answer only, as its own rejection of the selection *)
C12_IsJsxTotalAndExact ==
    Executed =>
        /\ isJSX(ctx.fragment) \in BOOLEAN
        /\ isJSX(ctx.fragment) <=> IsMarkup(ctx.fragment)
        /\ outcome.stage = "probe" <=> ~IsMarkup(ctx.fragment)
        /\ outcome.stage = "probe" => outcome.thrown = InvalidJSX

(* a fragment between '<' and '>' that the parser rejects was probed, and
   the probe answered false *)
C12_Witness ==
    /\ Executed
    /\ ctx.fragment.first = "<"
    /\ ctx.fragment.last = ">"
    /\ ctx.fragment.template = "throws"
    /\ ~isJSX(ctx.fragment)
    /\ outcome.stage = "probe"

(* the elements of a document whose span lies within [start, end], by
   their place in traversal order *)
ElementsWithin(doc, start, end) ==
    {i \in 1..Len(doc.elements) : InRange(doc.elements[i], start, end)}

(* C13 as stated: findSelectedJSXElement(tree, start, end) returns the
   first JSX element in traversal order whose span satisfies
   start <= node.start and node.end <= end, for every start including 0 and
   every element position including offset 0, and nothing only when no JSX
   element lies within the range *)
C13_FirstElementWithinRangeFound ==
    (Executed /\ outcome.stage \notin {"probe", "parse"}) =>
        LET within == ElementsWithin(ctx.code, ctx.start, ctx.end)
        IN  IF within = {}
            THEN outcome.stage = "select"
            ELSE /\ outcome.stage # "select"
                 /\ Succeeded =>
                      /\ outcome.element \in within
                      /\ \A i \in within : outcome.element <= i

(* the nodes of the references the extraction collected, as the document
   has them *)
CollectedNodes ==
    [i \in 1..Len(outcome.paths) |-> ctx.code.sites[outcome.paths[i]].node]

(* the references that count a root: all but a member access on this *)
Counted(nodes) ==
    {i \in 1..Len(nodes) :
        ~(Len(nodes[i].segs) = 2 /\ nodes[i].segs[1] = "this")}

(* the root of a reference: the object of a member access, an identifier
   itself *)
RootSegs(node) ==
    IF Len(node.segs) >= 2 THEN Front(node.segs) ELSE node.segs

(* the roots of more than one reference that are not reserved *)
SharedRoots(nodes) ==
    {RootSegs(nodes[i]) : i \in
        {j \in Counted(nodes) :
            \E k \in Counted(nodes) :
                k # j /\ RootSegs(nodes[k]) = RootSegs(nodes[j])}}
    \ {<<"this", "props">>, <<"this", "state">>, <<"props">>}

(* k is a strict dotted-path prefix of r *)
DottedPrefix(k, r) == Len(k) < Len(r) /\ SubSeq(r, 1, Len(k)) = k

OutermostRoots(nodes) ==
    {r \in SharedRoots(nodes) :
        ~\E k \in SharedRoots(nodes) : DottedPrefix(k, r)}

(* C14: getContainerObjects(references) returns exactly one container per
   root text that is the root of more than one collected reference (a
   member access whose object is not this counts its object, a bare
   identifier counts itself), is none of this.props, this.state and props,
   and has no strict dotted-path prefix among the roots of the first two
   kinds; each container's property is the last dot-separated segment of
   its object; nothing else is returned *)
C14_ContainersAreOutermostSharedRoots ==
    Succeeded =>
        LET roots == OutermostRoots(CollectedNodes)
            objects == outcome.objects
        IN  /\ Len(objects) = Cardinality(roots)
            /\ \A r \in roots :
                  \E i \in 1..Len(objects) :
                      /\ objects[i].object = JoinDot(r)
                      /\ objects[i].property = r[Len(r)]
            /\ \A i \in 1..Len(objects) :
                  \E r \in roots : objects[i].object = JoinDot(r)

(* the references a.x and a.b.c.x, each collected twice, gave the one
   container a: a.b.c is dropped although a.b is no shared root *)
C14_Witness ==
    /\ Succeeded
    /\ outcome.objects = <<[object |-> "a", property |-> "a"]>>
    /\ SharedRoots(CollectedNodes) = {<<"a">>, <<"a", "b", "c">>}

(* the containers of a list, as a set *)
ContainerSet(objects) == {objects[i] : i \in 1..Len(objects)}

(* the texts of the roots that occur more than once among the nodes *)
KeptRootTexts(nodes) ==
    LET filteredMap == SelectSeq(CountRoots(nodes, <<>>), KeptRoot)
    IN  {filteredMap[i].key : i \in 1..Len(filteredMap)}

(* C28 as stated: the legacy getContainerObjects and the strategy's
   getContainerObjects return the same set of containers for every list of
   references, including roots without a dot where one root's text is the
   other's minus its last character, and roots nested more than one level
   apart *)
C28_LegacyAndStrategySameContainers ==
    Succeeded =>
        /\ outcome.objects = getContainerObjects(CollectedNodes)
        /\ ContainerSet(getContainerObjectsLegacy(CollectedNodes))
              = ContainerSet(getContainerObjects(CollectedNodes))

(* C28 for the lists none of whose shared roots begins with the text of
   another: the two functions return the same containers *)
C28_SameContainersForUnrelatedRoots ==
    (/\ Succeeded
     /\ \A r \in KeptRootTexts(CollectedNodes),
           q \in KeptRootTexts(CollectedNodes) :
           r # q => ~StartsWith(q, r))
    => ContainerSet(getContainerObjectsLegacy(CollectedNodes))
          = ContainerSet(getContainerObjects(CollectedNodes))

(* the node the document has at the k-th reference the binding processed *)
BoundNode(k) == ctx.code.sites[outcome.live[k]].node

RECURSIVE StripUnderscores(_)
StripUnderscores(name) ==
    IF StartsWith(name, "_") THEN StripUnderscores(Slice(name, 1)) ELSE name

(* the containers whose object is the reference itself or a dotted-path
   prefix of it, each with the length of its object in segments *)
MatchingContainers(node, objects) ==
    {m \in (1..Len(objects)) \X (1..Len(node.segs)) :
        objects[m[1]].object = JoinDot(SubSeq(node.segs, 1, m[2]))}

(* C15 as stated: during prop binding a member-access reference is routed
   through a container only when its rendered root expression matches the
   container's object (the object itself or the object followed by a dotted
   remainder); it is then bound under <container.property>.<remainder>; a
   reference whose text merely begins with the same characters as a
   container object (items.length against container item) is bound as a
   standalone prop *)
C15_RoutedOnlyThroughMatchingContainer ==
    Succeeded =>
        \A k \in 1..Len(outcome.live) :
            LET node == BoundNode(k)
                name == outcome.bound.names[k]
                matching == MatchingContainers(node, outcome.objects)
            IN  (isMemberExpression(node) /\ ~isFunctionBinding(node)) =>
                    IF matching # {}
                    THEN \E m \in matching :
                            name = JoinDot(
                                <<outcome.objects[m[1]].property>>
                                \o SubSeq(node.segs, m[2] + 1,
                                          Len(node.segs)))
                    ELSE StripUnderscores(name) = PropertyName(node)

(* the turns of the binding that went through a container, each with the
   container the binder found *)
RoutedTurns ==
    {k \in 1..Len(outcome.live) :
        RouteOf(outcome.objects, BoundNode(k)) # 0}

RouteOfTurn(k) == outcome.objects[RouteOf(outcome.objects, BoundNode(k))]

(* C29 as stated: container routing preserves the value each rewritten
   access reads: whenever a reference is rewritten to props.<p>.<rest>
   through a container with object o and property p, the PropsMap entry p
   passed on the replacement tag renders to o, also when a prop named p was
   registered earlier for a different expression and when two containers
   with different objects share the last segment p *)
C29_ContainerPropRendersObject ==
    (Succeeded /\ executions = 1) =>
        \A k \in RoutedTurns :
            LET props == outcome.bound.passedProps
                p == RouteOfTurn(k).property
            IN  /\ StartsWith(outcome.bound.names[k], p)
                /\ MapHas(props, p)
                /\ codeFromNode(MapGet(props, p)) = RouteOfTurn(k).object

(* C29 for a container whose property no other container has and no
   reference outside the containers is named: the entry renders to the
   container's object *)
C29_UnsharedContainerPropRendersObject ==
    (Succeeded /\ executions = 1) =>
        \A k \in RoutedTurns :
            LET props == outcome.bound.passedProps
                p == RouteOfTurn(k).property
            IN  (/\ \A i \in 1..Len(outcome.objects) :
                       outcome.objects[i].property = p =>
                           outcome.objects[i] = RouteOfTurn(k)
                 /\ \A j \in 1..Len(outcome.live) :
                       j \notin RoutedTurns =>
                           StripUnderscores(outcome.bound.names[j]) # p)
                => /\ MapHas(props, p)
                   /\ codeFromNode(MapGet(props, p)) = RouteOfTurn(k).object

(* C16 as stated: within one extraction, any two processed references
   whose rendered source text is identical are bound to the same prop
   name, whatever other references are processed between them; this holds
   for bare identifiers, member accesses and function-bind references
   (x.y.bind(this)) alike *)
C16_SameTextSameName ==
    Succeeded =>
        \A j, k \in 1..Len(outcome.live) :
            (/\ outcome.live[j] # outcome.live[k]
             /\ RenderSite(BoundNode(j)) = RenderSite(BoundNode(k)))
            => outcome.bound.names[j] = outcome.bound.names[k]

(* the turns before the k-th that processed the same path *)
EarlierTurns(k) ==
    {j \in 1..(k - 1) : outcome.live[j] = outcome.live[k]}

(* the node the k-th turn found at its path: the node of the document, or
   what the last earlier turn on the same path put there *)
TurnNode(k) ==
    IF EarlierTurns(k) = {} THEN BoundNode(k)
    ELSE LET j == CHOOSE i \in EarlierTurns(k) :
                      \A h \in EarlierTurns(k) : h <= i
         IN  Node(createPropsExpression(ctx.produceClass,
                                        outcome.bound.names[j]),
                  BoundNode(k).callee)

RECURSIVE Underscores(_)
Underscores(n) == IF n = 0 THEN "" ELSE "_" \o Underscores(n - 1)

(* C17: for references bound outside containers, a PropsMap key never
   stands for two different rendered values: a reference whose natural name
   is already held by a different rendered value is bound to the name
   obtained by prefixing the fewest underscores that reach a name that is
   free or already holds the same rendered value, and the first holder
   keeps the unmangled name *)
C17_FewestUnderscoresNoSharedKey ==
    Succeeded =>
        \A k \in 1..Len(outcome.live) :
            LET node == TurnNode(k)
                text == codeFromNode(node)
                name == outcome.bound.names[k]
                props == outcome.bound.passedProps
            IN  RouteOf(outcome.objects, node) = 0 =>
                    /\ MapHas(props, name)
                    /\ codeFromNode(MapGet(props, name)) = text
                    /\ \E n \in 0..Len(name) :
                          /\ name = Underscores(n) \o NaturalName(node)
                          /\ \A m \in 0..(n - 1) :
                                LET shorter == Underscores(m)
                                               \o NaturalName(node)
                                IN  /\ MapHas(props, shorter)
                                    /\ codeFromNode(MapGet(props, shorter))
                                          # text

(* two different expressions naturally named value were bound, the first
   as value and the second as _value *)
C17_Witness ==
    /\ Succeeded
    /\ \E j, k \in 1..Len(outcome.live) :
          /\ j < k
          /\ outcome.live[j] # outcome.live[k]
          /\ EarlierTurns(k) = {}
          /\ PropertyName(BoundNode(j)) = "value"
          /\ PropertyName(BoundNode(k)) = "value"
          /\ codeFromNode(BoundNode(j)) # codeFromNode(BoundNode(k))
          /\ outcome.bound.names[j] = "value"
          /\ outcome.bound.names[k] = "_value"

(* the tree an execution that has just succeeded worked on, as it was
   before: the cached tree, or the fresh parse of the document *)
TreeBefore ==
    IF outcome'.tree <= Len(heap) THEN heap[outcome'.tree] ELSE ctx'.code

(* C18: when the selected element itself carries a key attribute whose
   value is an expression container, the expression is stored as the prop
   named exactly key before any reference is processed and the attribute is
   removed from the selected element: the replacement tag carries
   key={original expression}, the root element of the emitted component
   has no key attribute, and references inside the removed attribute
   produce no prop of their own; a key attribute with a string-literal
   value, or on a descendant element, is left in place and not captured *)
C18_KeyOfSelectedElementCaptured ==
    [][(executions' = executions + 1 /\ outcome'.stage = "done") =>
        LET found == TreeBefore.elements[outcome'.element]
            sites == TreeBefore.sites
            props == outcome'.bound.passedProps
            result == outcome'.result
        IN  IF found.key = "expression"
            THEN /\ Len(props) > 0
                 /\ props[1] = [key |-> "key", value |-> found.keyExpr]
                 /\ StartsWith(result.replaceJSXCode,
                               "<" \o ctx'.name \o " key={"
                               \o codeFromNode(found.keyExpr) \o "}")
                 /\ result.componentCode.jsx.key = "none"
                 /\ \A k \in 1..Len(outcome'.live) :
                       ~sites[outcome'.live[k]].inKey
                 /\ \A i \in DOMAIN result.componentCode.jsx.slots :
                       ~sites[i].inKey
                 /\ Len(props) <= 1 + Len(outcome'.live)
            ELSE /\ ~MapHas(props, "key")
                 /\ result.componentCode.jsx.key = found.key
                 /\ outcome'.live = outcome'.paths]_vars

(* an element with key={item.id}, and a reference inside that attribute,
   was extracted: the key went to the replacement tag *)
C18_Witness ==
    /\ Succeeded
    /\ executions = 1
    /\ ctx.code.elements[outcome.element].key = "expression"
    /\ \E p \in 1..Len(outcome.paths) :
          ctx.code.sites[outcome.paths[p]].inKey
    /\ MapHas(outcome.bound.passedProps, "key")
    /\ outcome.result.componentCode.jsx.key = "none"

(* C19 as stated: findComponentMemberReferences collects, for every
   function that encloses the target node (arrow function, function
   expression and function declaration alike), the read references of each
   of that function's parameters *)
C19_ParametersOfEveryEnclosingFunction ==
    (Succeeded /\ executions = 1) =>
        LET functions == ctx.code.elements[outcome.element].functions
        IN  \A f \in 1..Len(functions) :
                \A r \in 1..Len(functions[f].refs) :
                    \E p \in 1..Len(outcome.paths) :
                        outcome.paths[p] = functions[f].refs[r]

(* C20 as stated: for a reference whose outermost chain is a function-bind
   call x.y.bind(this), the prop is named y, the replacement tag passes the
   whole bind call x.y.bind(this) as the value of that prop, and in the
   extracted component the whole call is replaced by props.y (this.props.y
   for a class component) *)
C20_BindCallPassedWhole ==
    (Succeeded /\ executions = 1) =>
        \A k \in 1..Len(outcome.live) :
            LET node == BoundNode(k)
                name == outcome.bound.names[k]
                props == outcome.bound.passedProps
                slots == outcome.result.componentCode.jsx.slots
            IN  (isFunctionBinding(node) /\ EarlierTurns(k) = {}) =>
                    /\ StripUnderscores(name) = node.segs[Len(node.segs) - 1]
                    /\ MapHas(props, name)
                    /\ codeFromNode(MapGet(props, name)) = RenderSite(node)
                    /\ slots[outcome.live[k]]
                          = PropsPrefix(ctx.produceClass) \o name

(* the component enclosing the element the extraction selected *)
SelectedComponent == ctx.code.elements[outcome.element].component

(* C21 as stated: insertAt is the start offset of the enclosing
   component's node, or, whenever that node carries leading comments, the
   start offset of its first leading comment, including a comment that
   starts at offset 0 of the document *)
C21_InsertAtFirstLeadingComment ==
    Succeeded =>
        outcome.result.insertAt =
            IF Len(SelectedComponent.comments) # 0
            THEN SelectedComponent.comments[1]
            ELSE SelectedComponent.start

(* C21 for components without a leading comment at offset 0: insertAt is
   the first leading comment's start when there is one, the node's start
   otherwise *)
C21_InsertAtUnlessCommentAtZero ==
    (/\ Succeeded
     /\ ~(/\ Len(SelectedComponent.comments) # 0
          /\ SelectedComponent.comments[1] = 0))
    => outcome.result.insertAt =
           IF Len(SelectedComponent.comments) # 0
           THEN SelectedComponent.comments[1]
           ELSE SelectedComponent.start

(* the tree is what a fresh parse of its text builds *)
AsParsed(tree) ==
    /\ tree.elements = tree.text.elements
    /\ tree.sites = tree.text.sites
    /\ tree.body = tree.text.stmts

(* C27 as stated: a tree held in the parse cache is never altered by an
   extraction: after any sequence of execute calls, every tree that a
   codeToAst cache hit can return is structurally identical to a fresh
   parse of the text it was cached for *)
C27_CachedTreeNeverAltered ==
    \A i \in 1..Len(astCache) : AsParsed(heap[astCache[i].value.ast])

(* C27 for the cached trees other than the one the extraction worked on:
   they are as parsed *)
C27_OtherTreesAsParsed ==
    \A i \in 1..Len(astCache) :
        astCache[i].value.ast # outcome.tree =>
            AsParsed(heap[astCache[i].value.ast])

(* the document has what the probe saw in the selection: for a selection
   that is one JSX element, an element spanning [start, end]; for a
   selection that is a JSX fragment, no such element *)
SelectionInDocument ==
    (ctx.fragment.template = "JSXElement")
        <=> \E i \in 1..Len(ctx.code.elements) :
               /\ ctx.code.elements[i].start = ctx.start
               /\ ctx.code.elements[i].end = ctx.end

SelectedElement == ctx.code.elements[outcome.element]

(* C30 as stated: for every selection accepted by isJSX, the node chosen
   by findSelectedJSXElement spans the whole trimmed selection, so no
   selected markup is dropped when the selection is replaced by the
   component tag; this includes a selection that is a JSX fragment with
   several child elements *)
C30_ChosenNodeSpansSelection ==
    (Succeeded /\ isJSX(ctx.fragment) /\ SelectionInDocument) =>
        /\ SelectedElement.start = ctx.start
        /\ SelectedElement.end = ctx.end

(* C30 for a selection that is one JSX element: the node chosen is that
   element *)
C30_ElementSelectionChosenWhole ==
    (/\ Succeeded
     /\ isJSX(ctx.fragment)
     /\ SelectionInDocument
     /\ ctx.fragment.template = "JSXElement")
    => /\ SelectedElement.start = ctx.start
       /\ SelectedElement.end = ctx.end

(* C4: execute throws INVALID_JSX, and returns no result, for every
   selection whose text fails the JSX validation and for every parsed
   document with no JSX element within [start, end] *)
C4_InvalidJsxRaised ==
    (/\ Executed
     /\ \/ ~isJSX(ctx.fragment)
        \/ /\ ParserAccepts(ctx.code, ServicePlugins)
           /\ \A i \in 1..Len(ctx.code.elements) :
                 ~InRange(ctx.code.elements[i], ctx.start, ctx.end))
    => /\ outcome.threw
       /\ outcome.error.refactoring
       /\ outcome.error.code = "INVALID_JSX"
       /\ outcome.result = NoResult

(* the selection "just text" of a document that parses and holds an
   element of a component *)
C4_Witness ==
    /\ Executed
    /\ ctx.fragment.first = "j"
    /\ ParserAccepts(ctx.code, ServicePlugins)
    /\ Len(ctx.code.elements) > 0
    /\ outcome.threw
    /\ outcome.error.code = "INVALID_JSX"

(* the parse of the full document failed inside execute *)
ParseFailed ==
    /\ Executed
    /\ isJSX(ctx.fragment)
    /\ ~CacheHit(astCache, ctx.code)
    /\ ~ParserAccepts(ctx.code, ServicePlugins)

(* C5 as stated: when parsing the full document fails inside execute, the
   error that leaves execute has code EXTRACTION_ERROR and carries the
   parser's error as its cause *)
C5_ParseFailureIsExtractionError ==
    ParseFailed =>
        /\ outcome.threw
        /\ outcome.error.code = "EXTRACTION_ERROR"
        /\ outcome.error.originalError = SyntaxError.message

(* C5 amended: when parsing the full document fails inside execute, the
   error that leaves execute is the RefactoringError with code
   PARSER_ERROR that BabelService.parse made of the parser's error; it
   carries the parser's error as originalError and is not wrapped again *)
C5_ParseFailureIsParserError ==
    ParseFailed =>
        /\ outcome.threw
        /\ outcome.error.refactoring
        /\ outcome.error.code = "PARSER_ERROR"
        /\ outcome.error.originalError = SyntaxError.message
        /\ outcome.error = outcome.thrown

(* a valid selection in a document the parser rejects *)
C5_Witness ==
    /\ ParseFailed
    /\ outcome.stage = "parse"
    /\ ~ctx.code.wellFormed

----------------------------------------------------------------------------
(* Properties of the command run *)

(* C2: in every run of an extract command the replacement of the
   selection by replaceJSXCode and the insertion of componentCode at the
   line of insertAt are applied together or not at all, and none of them
   is applied when the extraction threw, the prompt was dismissed or no
   editor was active *)
C2_EditsAppliedTogether ==
    /\ \/ run.edits = <<>>
       \/ /\ Len(run.edits) = 2
          /\ Succeeded
          /\ run.edits[1].kind = "replace"
          /\ run.edits[1].text = outcome.result.replaceJSXCode
          /\ run.edits[2].kind = "insert"
          /\ run.edits[2].text = outcome.result.componentCode
          /\ run.edits[2].lineOf = outcome.result.insertAt
    /\ (outcome.threw \/ run.failedAt \in {"editor", "prompt", "execute"})
          => run.edits = <<>>

(* a run that went through: both edits applied, the document formatted *)
C2_Witness ==
    /\ run.pc = "done"
    /\ run.failedAt = "none"
    /\ Len(run.edits) = 2
    /\ run.formatted

ErrorKinds ==
    {"INVALID_JSX", "INVALID_COMPONENT", "PARSER_ERROR", "EXTRACTION_ERROR"}

(* C6: every failure that leaves executeExtraction is a RefactoringError
   with code INVALID_JSX, INVALID_COMPONENT, PARSER_ERROR or
   EXTRACTION_ERROR; a RefactoringError thrown inside leaves unchanged,
   also through the wrapError of extractToComponent, and any other thrown
   value leaves wrapped as EXTRACTION_ERROR with itself as originalError *)
C6_FailuresNormalized ==
    outcome.threw =>
        /\ outcome.error.refactoring
        /\ outcome.error.code \in ErrorKinds
        /\ outcome.thrown.refactoring => outcome.error = outcome.thrown
        /\ ~outcome.thrown.refactoring =>
              /\ outcome.error.code = "EXTRACTION_ERROR"
              /\ outcome.error.originalError = outcome.thrown.message
        /\ run.failedAt = "execute" => run.error = outcome.error

(* a run whose extraction threw INVALID_COMPONENT inside *)
C6_Witness ==
    /\ outcome.threw
    /\ outcome.thrown.refactoring
    /\ outcome.thrown.code = "INVALID_COMPONENT"
    /\ run.failedAt = "execute"
    /\ run.error.code = "INVALID_COMPONENT"

(* C22: a failing extraction is never retried: for each invocation of an
   extract command the pipeline runs at most once, and a failure results in
   exactly one error message shown for that invocation (none when the run
   did not fail) *)
C22_FailureReportedOnceNeverRetried ==
    /\ executions <= run.number
    /\ run.failedAt = "execute" => outcome.threw
    /\ run.failedAt # "none" =>
          /\ run.pc = "done"
          /\ Len(run.shown) = 1
          /\ run.shown[1] = "Failed to extract component: "
                               \o run.error.message
    /\ run.failedAt = "none" => run.shown = <<>>

(* a run whose extraction threw: the pipeline ran once, one message *)
C22_Witness ==
    /\ run.failedAt = "execute"
    /\ outcome.threw
    /\ executions = 1
    /\ Len(run.shown) = 1

(* executeFormatCommand has been called in the current run *)
FormatInvoked ==
    run.pc = "format" \/ run.formatted \/ run.failedAt = "format"

(* C23 as stated: in every run of an extract command the format-document
   action is invoked only after the replace and insert edits have been
   applied, and the selection is collapsed only after that; in a run where
   no edit was applied neither the format action nor the selection
   collapse happens *)
C23_FormatOnlyAfterAppliedEdits ==
    /\ FormatInvoked => Len(run.edits) = 2
    /\ run.selectionReset => (run.formatted /\ Len(run.edits) = 2)
    /\ run.edits = <<>> => (~FormatInvoked /\ ~run.selectionReset)

(* C23 for the runs that end before editor.edit is called: without an
   editor, with a dismissed prompt or with a failed extraction neither the
   format action nor the selection collapse happens, and the selection is
   collapsed only after the format action has settled *)
C23_NoFormatWithoutEditCall ==
    /\ run.failedAt \in {"editor", "prompt", "execute"} =>
          (~FormatInvoked /\ ~run.selectionReset)
    /\ FormatInvoked => Succeeded
    /\ run.selectionReset => run.formatted

----------------------------------------------------------------------------
(* Properties of retryWithBackoff *)

RetryMax(a, b) == IF a > b THEN a ELSE b

RetryMin(a, b) == IF a < b THEN a ELSE b

(* C24: retryWithBackoff(fn, maxRetries, initialDelay) calls fn at most
   maxRetries times, returns the result of the first successful call
   without calling fn again, waits initialDelay * 2^k after the k-th failed
   attempt (k from 0) only when another attempt follows, and after
   maxRetries failures throws the error of the last attempt (the thrown
   Error itself, or an Error of the thrown value's string); with
   maxRetries <= 0 it never calls fn and throws 'Retry failed with no
   error' *)
C24_RetryWithBackoff ==
    LET failures == Len(retry.rejections)
    IN  /\ retry.calls <= RetryMax(0, retry.maxRetries)
        /\ retry.pc = "returned" =>
              /\ retry.calls = failures + 1
              /\ retry.result \in FnResults
        /\ retry.pc # "returned" => retry.result = "none"
        /\ retry.pc \in {"fn", "returned"} => retry.calls = failures + 1
        /\ retry.pc \in {"timer", "thrown"} => retry.calls = failures
        /\ Len(retry.delays) =
              IF retry.pc = "timer" THEN failures
              ELSE RetryMin(failures, RetryMax(0, retry.maxRetries - 1))
        /\ \A k \in 1..Len(retry.delays) :
              retry.delays[k] = retry.initialDelay * Pow2(k - 1)
        /\ (retry.pc = "timer") => failures < retry.maxRetries
        /\ (retry.maxRetries >= 1 /\ failures = retry.maxRetries) =>
              /\ retry.pc = "thrown"
              /\ retry.thrown = ToError(retry.rejections[failures])
              /\ retry.rejections[failures].isError =>
                    retry.thrown = retry.rejections[failures]
        /\ retry.pc = "thrown" =>
              failures = RetryMax(0, retry.maxRetries)
        /\ (retry.pc # "idle" /\ retry.maxRetries <= 0) =>
              /\ retry.pc = "thrown"
              /\ retry.calls = 0
              /\ retry.delays = <<>>
              /\ retry.thrown.message = "Retry failed with no error"

(* three attempts failed: two delays, the third error thrown *)
C24_Witness ==
    /\ retry.pc = "thrown"
    /\ retry.maxRetries = 3
    /\ Len(retry.rejections) = 3
    /\ retry.delays = <<100, 200>>
    /\ retry.thrown = retry.rejections[3]
    /\ retry.rejections[3] # retry.rejections[2]

----------------------------------------------------------------------------
(* Properties of the service container *)

AllServiceKeys ==
    ContainerKeys \cup
        {BootstrapRegistrations[i].key :
            i \in 1..Len(BootstrapRegistrations)}

(* C25: once registerSingleton(k, f) has run for a key k with no earlier
   singleton, f has been invoked exactly once, and every later get(k)
   returns that same instance, without invoking anything, after any
   register, registerSingleton and registerInstance call on k (a later
   registerSingleton(k, g) does not invoke g; a factory or direct instance
   under k never takes precedence), until clear() is called; after clear(),
   has(k) is false and get(k) throws 'Service not found' for every key *)
C25_SingletonKeptUntilClear ==
    [][(\A k \in AllServiceKeys :
          /\ (/\ served'.name = "registerSingleton"
              /\ served'.key = k
              /\ ~MapHas(container.singletons, k))
             => (/\ container'.created = container.created + 1
                 /\ MapHas(container'.singletons, k)
                 /\ MapGet(container'.singletons, k).id = container'.created
                 /\ MapGet(container'.singletons, k).class \in
                       {f.class : f \in ContainerFactories})
          /\ (/\ MapHas(container.singletons, k)
              /\ served'.name \in {"get", "register", "registerSingleton",
                                   "registerInstance"})
             => (/\ ~get(container', k).threw
                 /\ get(container', k).value
                       = MapGet(container.singletons, k)
                 /\ get(container', k).c = container'
                 /\ served'.key = k =>
                       (/\ container'.created = container.created
                        /\ served'.name = "get" =>
                              (/\ ~served'.threw
                               /\ served'.value
                                     = MapGet(container.singletons, k)))))
       /\ (served'.name = "clear" =>
             \A k \in AllServiceKeys :
                 /\ ~has(container', k)
                 /\ get(container', k).threw
                 /\ get(container', k).message = "Service not found: " \o k)
      ]_vars

(* a key with a singleton made by F, then a factory G and a direct
   instance registered under it: get answers the singleton *)
C25_Witness ==
    /\ MapHas(container.singletons, "unknown")
    /\ MapGet(container.singletons, "unknown").class = "F"
    /\ MapHas(container.factories, "unknown")
    /\ MapGet(container.factories, "unknown").class = "G"
    /\ MapHas(container.services, "unknown")
    /\ get(container, "unknown").value.class = "F"

(* the strategies of the refactoring service that can handle a type *)
Handlers(c, type) ==
    LET strategies == StrategiesOf(get(c, RefactoringServiceKey).value)
    IN  {i \in 1..Len(strategies) : canHandle(strategies[i], type)}

(* C26: bootstrap() never raises 'Service not found': every container.get
   executed during bootstrap targets a key registered earlier in the
   sequence, and afterwards get('refactoring.service') and
   get(ServiceKeys.VSCodeService) succeed, and the service's strategy list
   holds exactly one strategy that can handle 'extract' and one that can
   handle 'extractToFile' *)
C26_BootstrapFindsEveryService ==
    /\ ~bootstrap(container.created).threw
    /\ served.name = "bootstrap" =>
          /\ ~served.threw
          /\ ~get(container, RefactoringServiceKey).threw
          /\ get(container, RefactoringServiceKey).value.class
                = "RefactoringService"
          /\ ~get(container, ServiceKeys.VSCodeService).threw
          /\ get(container, ServiceKeys.VSCodeService).value.class
                = "VSCodeService"
          /\ Cardinality(Handlers(container, "extract")) = 1
          /\ Cardinality(Handlers(container, "extractToFile")) = 1
          /\ Len(StrategiesOf(get(container, RefactoringServiceKey).value))
                = 2

(* bootstrap has run and the refactoring service was got from its
   container *)
C26_Witness ==
    /\ served.name = "get"
    /\ served.key = RefactoringServiceKey
    /\ ~served.threw
    /\ served.value.class = "RefactoringService"
    /\ Len(served.value.deps) = 4
    /\ served.value.deps[3].class = "ExtractToComponentStrategy"
    /\ served.value.deps[3].deps[1].class = "ASTService"
    /\ served.value.deps[3].deps[1].deps[1].class = "BabelService"

----------------------------------------------------------------------------
(* Properties of the parse caches *)

Returned == call.svc # "none" /\ ~call.threw

(* C7 as stated: two calls codeToAst(text) with identical text, the second
   less than 5 s after the first and with no dialect change in between,
   return the same tree instance *)
C7_SameTreeWithinTtl ==
    (/\ Returned
     /\ call.prev.at >= 0
     /\ call.at - call.prev.at < AST_CACHE_TTL
     /\ call.prev.epoch = call.epoch)
    => call.ret = call.prev.ret

(* C7 amended: for a text longer than 1000 characters whose tree has a
   non-empty program body, when a call codeToAst(text) parsed the text and
   stored the tree, a second call made less than 5 s after it, with no
   dialect change in between and the stored entry still in the cache,
   returns the same tree instance *)
C7_SameTreeWhileCached ==
    [][(/\ calls' = calls + 1
        /\ ~call'.threw
        /\ ShouldCache(call'.code)
        /\ call'.code.stmts > 0
        /\ call'.prev.at >= 0
        /\ ~call'.prev.hit
        /\ call'.at - call'.prev.at < AST_CACHE_TTL
        /\ call'.prev.epoch = call'.epoch
        /\ MapHas(CacheOf(call'.svc), cacheKey(call'.code))
        /\ MapGet(CacheOf(call'.svc), cacheKey(call'.code)).ast
              = call'.prev.ret)
       => call'.ret = call'.prev.ret]_vars

(* a second call of a cached text within the time window has returned *)
C7_Witness ==
    /\ Returned
    /\ ShouldCache(call.code)
    /\ call.code.stmts > 0
    /\ call.prev.at >= 0
    /\ ~call.prev.hit
    /\ call.at - call.prev.at < AST_CACHE_TTL
    /\ call.at > call.prev.at
    /\ call.prev.epoch = call.epoch
    /\ call.hit

(* C8: each cache holds at most 10 entries, and an insertion that would
   make it hold 11 removes exactly one entry, one with the oldest
   timestamp *)
C8_BoundedOldestEvicted ==
    [][/\ MapSize(astCache') <= AST_CACHE_LIMIT
       /\ MapSize(libCache') <= AST_CACHE_LIMIT
       /\ \A svc \in Services :
            LET before == IF svc = "ast" THEN astCache ELSE libCache
                after == IF svc = "ast" THEN astCache' ELSE libCache'
                key == cacheKey(call'.code)
            IN  (/\ calls' = calls + 1
                 /\ call'.svc = svc
                 /\ ~call'.threw
                 /\ ~call'.hit
                 /\ ShouldCache(call'.code)
                 /\ MapSize(before) = AST_CACHE_LIMIT
                 /\ ~MapHas(before, key))
                => \E k \in MapKeys(before) :
                     /\ MapKeys(after) = (MapKeys(before) \ {k}) \cup {key}
                     /\ \A j \in MapKeys(before) :
                          MapGet(before, k).timestamp
                            <= MapGet(before, j).timestamp
                     /\ MapGet(before, k).timestamp <= now]_vars

(* a document that was cached is gone from a full cache: it was evicted *)
C8_Witness ==
    \E svc \in Services :
        /\ LastOf(svc, Filler(2)).at >= 0
        /\ ~MapHas(CacheOf(svc), cacheKey(Filler(2)))
        /\ MapSize(CacheOf(svc)) = AST_CACHE_LIMIT

(* C9: a call that finds an entry 5000 ms old or older does not return its
   tree: it parses the text again, and for a text longer than 1000
   characters it overwrites the entry under the same key with the new tree
   and the current time, the cache keeping its size *)
C9_ExpiredEntryReparsed ==
    [][\A svc \in Services :
        LET before == IF svc = "ast" THEN astCache ELSE libCache
            after == IF svc = "ast" THEN astCache' ELSE libCache'
            key == cacheKey(call'.code)
        IN  (/\ calls' = calls + 1
             /\ call'.svc = svc
             /\ MapHas(before, key)
             /\ now - MapGet(before, key).timestamp >= AST_CACHE_TTL)
            => /\ ~call'.hit
               /\ ~call'.threw =>
                    /\ call'.ret = Len(heap) + 1
                    /\ call'.ret # MapGet(before, key).ast
                    /\ Len(heap') = Len(heap) + 1
                    /\ heap'[call'.ret].text = call'.code
                    /\ ShouldCache(call'.code) =>
                         /\ MapGet(after, key) =
                              [ast |-> call'.ret, timestamp |-> now]
                         /\ MapSize(after) = MapSize(before)]_vars

(* an entry exactly 5000 ms old was found and the long text parsed again *)
C9_Witness ==
    /\ Returned
    /\ ShouldCache(call.code)
    /\ call.prev.at >= 0
    /\ call.at - call.prev.at = AST_CACHE_TTL
    /\ ~call.hit
    /\ MapGet(CacheOf(call.svc), cacheKey(call.code)).ast = call.ret

(* C10: after the configured dialect plugins change, no parse returns a
   tree that was cached before the change *)
C10_NoTreeFromBeforeDialectChange ==
    Returned => heap[call.ret].epoch = call.epoch

(* C11 as stated: when two different documents longer than 1000 characters
   share their first 100 characters and the second is parsed less than 5 s
   after the first, codeToAst returns for the second the tree parsed from
   the first *)
C11_PrefixSharersShareTree ==
    [][(/\ calls' = calls + 1
        /\ call.svc = call'.svc
        /\ ~call.threw
        /\ ~call.hit
        /\ call.code # call'.code
        /\ ShouldCache(call.code)
        /\ ShouldCache(call'.code)
        /\ call.code.prefix = call'.code.prefix
        /\ call'.at - call.at < AST_CACHE_TTL)
       => /\ ~call'.threw
          /\ call'.ret = call.ret]_vars

(* C11 amended: the cache is looked up only by the first 100 characters of
   the text: when two different documents longer than 1000 characters share
   their first 100 characters, the tree parsed from the first has a
   non-empty program body, the second is parsed less than 5 s after the
   first and, for the cache of lib/ast, the dialect setting has not changed
   in between, codeToAst returns for the second document the tree parsed
   from the first, without parsing the second *)
C11_PrefixSharersShareCachedTree ==
    [][(/\ calls' = calls + 1
        /\ call.svc = call'.svc
        /\ ~call.threw
        /\ ~call.hit
        /\ call.code # call'.code
        /\ ShouldCache(call.code)
        /\ ShouldCache(call'.code)
        /\ call.code.prefix = call'.code.prefix
        /\ call'.at - call.at < AST_CACHE_TTL
        /\ heap[call.ret].body > 0
        /\ call.svc = "lib" => call.epoch = call'.epoch)
       => /\ ~call'.threw
          /\ call'.hit
          /\ call'.ret = call.ret
          /\ heap' = heap
          /\ heap'[call'.ret].text = call.code]_vars

(* a long document was served the tree of a different document *)
C11_Witness ==
    /\ Returned
    /\ call.hit
    /\ ShouldCache(call.code)
    /\ ShouldCache(heap[call.ret].text)
    /\ heap[call.ret].text # call.code
    /\ heap[call.ret].text.prefix = call.code.prefix
    /\ call.at - heap[call.ret].at < AST_CACHE_TTL

====
